---- MODULE Spec2Model ----
(***************************************************************************)
(* Manatee County PAO property lookup: the address normalizer, the         *)
(* Playwright browser manager (getBrowser / withPage), the search driver   *)
(* (findManateePaoDetailUrlOnPage, scrapeManateePaoPropertyByAddress-      *)
(* Playwright, extractManateePaoPropertyPlaywright), the result matcher    *)
(* (selectBestResult), the Exa fallback (findParcelIdViaExa) and the       *)
(* top-level searchManateePAO.                                             *)
(*                                                                         *)
(* Text is modelled by TLA+ strings and the JavaScript string functions    *)
(* by operators that compute what they compute (includes is substring     *)
(* search, split keeps empty pieces, toLowerCase maps A-Z).                *)
(***************************************************************************)
EXTENDS Integers, Sequences, FiniteSets, TLC

(***************************************************************************)
(* JavaScript string primitives                                            *)
(***************************************************************************)

\* JavaScript undefined / null for an optional string.
Undefined == "<undefined>"

\* s[i] as a one-character string.
Ch(s, i) == SubSeq(s, i, i)

\* String.prototype.includes: sub occurs in s; the empty string occurs in every string.
Includes(s, sub) ==
    \E i \in 1..(Len(s) - Len(sub) + 1) : SubSeq(s, i, i + Len(sub) - 1) = sub

UpperToLower ==
    "A" :> "a" @@ "B" :> "b" @@ "C" :> "c" @@ "D" :> "d" @@ "E" :> "e" @@ "F" :> "f" @@
    "G" :> "g" @@ "H" :> "h" @@ "I" :> "i" @@ "J" :> "j" @@ "K" :> "k" @@ "L" :> "l" @@
    "M" :> "m" @@ "N" :> "n" @@ "O" :> "o" @@ "P" :> "p" @@ "Q" :> "q" @@ "R" :> "r" @@
    "S" :> "s" @@ "T" :> "t" @@ "U" :> "u" @@ "V" :> "v" @@ "W" :> "w" @@ "X" :> "x" @@
    "Y" :> "y" @@ "Z" :> "z"

LowerToUpper ==
    "a" :> "A" @@ "b" :> "B" @@ "c" :> "C" @@ "d" :> "D" @@ "e" :> "E" @@ "f" :> "F" @@
    "g" :> "G" @@ "h" :> "H" @@ "i" :> "I" @@ "j" :> "J" @@ "k" :> "K" @@ "l" :> "L" @@
    "m" :> "M" @@ "n" :> "N" @@ "o" :> "O" @@ "p" :> "P" @@ "q" :> "Q" @@ "r" :> "R" @@
    "s" :> "S" @@ "t" :> "T" @@ "u" :> "U" @@ "v" :> "V" @@ "w" :> "W" @@ "x" :> "X" @@
    "y" :> "Y" @@ "z" :> "Z"

RECURSIVE ToLowerCase(_)
ToLowerCase(s) ==
    IF Len(s) = 0 THEN ""
    ELSE (IF Ch(s, 1) \in DOMAIN UpperToLower THEN UpperToLower[Ch(s, 1)] ELSE Ch(s, 1))
         \o ToLowerCase(SubSeq(s, 2, Len(s)))

RECURSIVE ToUpperCase(_)
ToUpperCase(s) ==
    IF Len(s) = 0 THEN ""
    ELSE (IF Ch(s, 1) \in DOMAIN LowerToUpper THEN LowerToUpper[Ch(s, 1)] ELSE Ch(s, 1))
         \o ToUpperCase(SubSeq(s, 2, Len(s)))

Digits == {"0", "1", "2", "3", "4", "5", "6", "7", "8", "9"}

\* /^\d+$/.test(s)
IsAllDigits(s) == Len(s) > 0 /\ \A i \in 1..Len(s) : Ch(s, i) \in Digits

\* /^[A-Z]{2}$/i.test(s)
IsTwoLetters(s) ==
    Len(s) = 2 /\ \A i \in 1..2 : Ch(s, i) \in (DOMAIN UpperToLower \cup DOMAIN LowerToUpper)

\* /^\d{5}(-\d{4})?$/.test(s)
IsZipCode(s) ==
    \/ Len(s) = 5 /\ IsAllDigits(s)
    \/ Len(s) = 10 /\ IsAllDigits(SubSeq(s, 1, 5)) /\ Ch(s, 6) = "-" /\ IsAllDigits(SubSeq(s, 7, 10))

RECURSIVE TrimStart(_)
TrimStart(s) == IF Len(s) > 0 /\ Ch(s, 1) = " " THEN TrimStart(SubSeq(s, 2, Len(s))) ELSE s

RECURSIVE TrimEnd(_)
TrimEnd(s) ==
    IF Len(s) > 0 /\ Ch(s, Len(s)) = " " THEN TrimEnd(SubSeq(s, 1, Len(s) - 1)) ELSE s

\* String.prototype.trim
Trim(s) == TrimEnd(TrimStart(s))

\* s.split(c) for a one-character separator: empty pieces are kept, "" gives <<"">>.
RECURSIVE SplitChar(_, _)
SplitChar(s, c) ==
    IF \A i \in 1..Len(s) : Ch(s, i) # c THEN <<s>>
    ELSE LET k == CHOOSE i \in 1..Len(s) : Ch(s, i) = c /\ \A j \in 1..(i - 1) : Ch(s, j) # c
         IN  <<SubSeq(s, 1, k - 1)>> \o SplitChar(SubSeq(s, k + 1, Len(s)), c)

\* s.replace(/\s+/g, " ")
RECURSIVE CollapseWhitespace(_)
CollapseWhitespace(s) ==
    IF Len(s) < 2 THEN s
    ELSE IF Ch(s, 1) = " " /\ Ch(s, 2) = " " THEN CollapseWhitespace(SubSeq(s, 2, Len(s)))
    ELSE Ch(s, 1) \o CollapseWhitespace(SubSeq(s, 2, Len(s)))

\* s.split(/\s+/): a run of whitespace is one separator.
SplitWhitespace(s) == SplitChar(CollapseWhitespace(s), " ")

\* Array.prototype.join
RECURSIVE Join(_, _)
Join(parts, sep) ==
    IF Len(parts) = 0 THEN ""
    ELSE IF Len(parts) = 1 THEN parts[1]
    ELSE parts[1] \o sep \o Join(Tail(parts), sep)

\* Array.prototype.slice(1)
Slice1(parts) == IF Len(parts) = 0 THEN <<>> ELSE Tail(parts)

\* A falsy optional string: undefined, null or "".
Falsy(s) == s = Undefined \/ s = ""

(***************************************************************************)
(* Address normalizer                                                      *)
(***************************************************************************)

STREET_SUFFIX_MAP ==
    "alley" :> "Aly" @@ "avenue" :> "Ave" @@ "boulevard" :> "Blvd" @@ "circle" :> "Cir" @@
    "court" :> "Ct" @@ "drive" :> "Dr" @@ "expressway" :> "Expy" @@ "freeway" :> "Fwy" @@
    "highway" :> "Hwy" @@ "lane" :> "Ln" @@ "parkway" :> "Pkwy" @@ "place" :> "Pl" @@
    "road" :> "Rd" @@ "street" :> "St" @@ "terrace" :> "Ter" @@ "trail" :> "Trl" @@
    "way" :> "Way" @@ "arcade" :> "Arc" @@ "bayou" :> "Byu" @@ "beach" :> "Bch" @@
    "bend" :> "Bnd" @@ "bluff" :> "Blf" @@ "bluffs" :> "Blfs" @@ "bottom" :> "Btm" @@
    "branch" :> "Br" @@ "bridge" :> "Brg" @@ "brook" :> "Brk" @@ "brooks" :> "Brks" @@
    "burg" :> "Bg" @@ "burgs" :> "Bgs" @@ "bypass" :> "Byp" @@ "camp" :> "Cp" @@
    "canyon" :> "Cyn" @@ "cape" :> "Cpe" @@ "causeway" :> "Cswy" @@ "center" :> "Ctr" @@
    "centers" :> "Ctrs" @@ "cliff" :> "Clf" @@ "cliffs" :> "Clfs" @@ "club" :> "Clb" @@
    "common" :> "Cmn" @@ "commons" :> "Cmns" @@ "corner" :> "Cor" @@ "corners" :> "Cors" @@
    "course" :> "Crse" @@ "cove" :> "Cv" @@ "coves" :> "Cvs" @@ "creek" :> "Crk" @@
    "crescent" :> "Cres" @@ "crest" :> "Crst" @@ "crossing" :> "Xing" @@
    "crossroad" :> "Xrd" @@ "crossroads" :> "Xrds" @@ "curve" :> "Curv" @@ "dale" :> "Dl" @@
    "dam" :> "Dm" @@ "divide" :> "Dv" @@ "drives" :> "Drs" @@ "estate" :> "Est" @@
    "estates" :> "Ests" @@ "extension" :> "Ext" @@ "extensions" :> "Exts" @@
    "fall" :> "Fall" @@ "falls" :> "Fls" @@ "ferry" :> "Fry" @@ "field" :> "Fld" @@
    "fields" :> "Flds" @@ "flat" :> "Flt" @@ "flats" :> "Flts" @@ "ford" :> "Frd" @@
    "fords" :> "Frds" @@ "forest" :> "Frst" @@ "forge" :> "Frg" @@ "forges" :> "Frgs" @@
    "fork" :> "Frk" @@ "forks" :> "Frks" @@ "fort" :> "Ft" @@ "garden" :> "Gdn" @@
    "gardens" :> "Gdns" @@ "gateway" :> "Gtwy" @@ "glen" :> "Gln" @@ "glens" :> "Glns" @@
    "green" :> "Grn" @@ "greens" :> "Grns" @@ "grove" :> "Grv" @@ "groves" :> "Grvs" @@
    "harbor" :> "Hbr" @@ "harbors" :> "Hbrs" @@ "haven" :> "Hvn" @@ "heights" :> "Hts" @@
    "hill" :> "Hl" @@ "hills" :> "Hls" @@ "hollow" :> "Holw" @@ "inlet" :> "Inlt" @@
    "island" :> "Is" @@ "islands" :> "Iss" @@ "isle" :> "Isle" @@ "junction" :> "Jct" @@
    "junctions" :> "Jcts" @@ "key" :> "Ky" @@ "keys" :> "Kys" @@ "knoll" :> "Knl" @@
    "knolls" :> "Knls" @@ "lake" :> "Lk" @@ "lakes" :> "Lks" @@ "land" :> "Land" @@
    "landing" :> "Lndg" @@ "light" :> "Lgt" @@ "lights" :> "Lgts" @@ "loaf" :> "Lf" @@
    "lock" :> "Lck" @@ "locks" :> "Lcks" @@ "lodge" :> "Ldg" @@ "loop" :> "Loop" @@
    "mall" :> "Mall" @@ "manor" :> "Mnr" @@ "manors" :> "Mnrs" @@ "meadow" :> "Mdw" @@
    "meadows" :> "Mdws" @@ "mews" :> "Mews" @@ "mill" :> "Ml" @@ "mills" :> "Mls" @@
    "mission" :> "Msn" @@ "motorway" :> "Mtwy" @@ "mount" :> "Mt" @@ "mountain" :> "Mtn" @@
    "mountains" :> "Mtns" @@ "neck" :> "Nck" @@ "orchard" :> "Orch" @@ "oval" :> "Oval" @@
    "overpass" :> "Opas" @@ "park" :> "Park" @@ "parks" :> "Parks" @@ "pass" :> "Pass" @@
    "passage" :> "Psge" @@ "path" :> "Path" @@ "pike" :> "Pike" @@ "pine" :> "Pne" @@
    "pines" :> "Pnes" @@ "plain" :> "Pln" @@ "plains" :> "Plns" @@ "plaza" :> "Plz" @@
    "point" :> "Pt" @@ "points" :> "Pts" @@ "port" :> "Prt" @@ "ports" :> "Prts" @@
    "prairie" :> "Pr" @@ "radial" :> "Radl" @@ "ramp" :> "Ramp" @@ "ranch" :> "Rnch" @@
    "rapid" :> "Rpd" @@ "rapids" :> "Rpds" @@ "rest" :> "Rst" @@ "ridge" :> "Rdg" @@
    "ridges" :> "Rdgs" @@ "river" :> "Riv" @@ "roads" :> "Rds" @@ "route" :> "Rte" @@
    "row" :> "Row" @@ "rue" :> "Rue" @@ "run" :> "Run" @@ "shoal" :> "Shl" @@
    "shoals" :> "Shls" @@ "shore" :> "Shr" @@ "shores" :> "Shrs" @@ "skyway" :> "Skwy" @@
    "spring" :> "Spg" @@ "springs" :> "Spgs" @@ "spur" :> "Spur" @@ "spurs" :> "Spurs" @@
    "square" :> "Sq" @@ "squares" :> "Sqs" @@ "station" :> "Sta" @@ "stravenue" :> "Stra" @@
    "stream" :> "Strm" @@ "streets" :> "Sts" @@ "summit" :> "Smt" @@ "throughway" :> "Trwy" @@
    "trace" :> "Trce" @@ "track" :> "Trak" @@ "trafficway" :> "Trfy" @@ "trails" :> "Trls" @@
    "trailer" :> "Trlr" @@ "tunnel" :> "Tunl" @@ "turnpike" :> "Tpke" @@
    "underpass" :> "Upas" @@ "union" :> "Un" @@ "unions" :> "Uns" @@ "valley" :> "Vly" @@
    "valleys" :> "Vlys" @@ "viaduct" :> "Via" @@ "view" :> "Vw" @@ "views" :> "Vws" @@
    "village" :> "Vlg" @@ "villages" :> "Vlgs" @@ "ville" :> "Vl" @@ "vista" :> "Vis" @@
    "walk" :> "Walk" @@ "walks" :> "Walks" @@ "wall" :> "Wall" @@ "ways" :> "Ways" @@
    "well" :> "Wl" @@ "wells" :> "Wls"

DIRECTIONAL_MAP ==
    "north" :> "N" @@ "south" :> "S" @@ "east" :> "E" @@ "west" :> "W" @@
    "northeast" :> "NE" @@ "northwest" :> "NW" @@ "southeast" :> "SE" @@ "southwest" :> "SW"

UNIT_DESIGNATOR_MAP ==
    "apartment" :> "Apt" @@ "basement" :> "Bsmt" @@ "building" :> "Bldg" @@
    "department" :> "Dept" @@ "floor" :> "Fl" @@ "front" :> "Frnt" @@ "hangar" :> "Hngr" @@
    "lobby" :> "Lbby" @@ "lot" :> "Lot" @@ "lower" :> "Lowr" @@ "office" :> "Ofc" @@
    "penthouse" :> "Ph" @@ "pier" :> "Pier" @@ "rear" :> "Rear" @@ "room" :> "Rm" @@
    "side" :> "Side" @@ "slip" :> "Slip" @@ "space" :> "Spc" @@ "stop" :> "Stop" @@
    "suite" :> "Ste" @@ "trailer" :> "Trlr" @@ "unit" :> "Unit" @@ "upper" :> "Uppr"

\* One token of normalizeStreet's loop; i is the token's 0-based index.
NormalizeToken(token, i) ==
    LET lowerToken == ToLowerCase(token)
    IN  IF lowerToken \in DOMAIN DIRECTIONAL_MAP THEN DIRECTIONAL_MAP[lowerToken]
        ELSE IF lowerToken \in DOMAIN STREET_SUFFIX_MAP /\ i > 0 /\ ~IsAllDigits(token)
             THEN STREET_SUFFIX_MAP[lowerToken]
        ELSE IF lowerToken \in DOMAIN UNIT_DESIGNATOR_MAP THEN UNIT_DESIGNATOR_MAP[lowerToken]
        ELSE token

\* normalizeStreet(street).normalized
normalizeStreet(street) ==
    LET tokens == SplitChar(CollapseWhitespace(Trim(street)), " ")
    IN  Join([i \in 1..Len(tokens) |-> NormalizeToken(tokens[i], i - 1)], " ")

\* normalizeStreetForUsps(street)
normalizeStreetForUsps(street) == normalizeStreet(street)

\* parseAddressComponents(address) of the normalizer.
parseAddressComponents(address) ==
    LET raw   == SplitChar(address, ",")
        parts == [i \in 1..Len(raw) |-> Trim(raw[i])]
        stateZipParts == IF Len(parts) >= 3 THEN SplitWhitespace(parts[3]) ELSE <<>>
        zip3  == IF Len(stateZipParts) >= 2 /\ IsZipCode(stateZipParts[2])
                 THEN stateZipParts[2] ELSE Undefined
    IN  [street  |-> parts[1],
         city    |-> IF Len(parts) >= 2 THEN parts[2] ELSE Undefined,
         state   |-> IF Len(stateZipParts) >= 1 /\ IsTwoLetters(stateZipParts[1])
                     THEN ToUpperCase(stateZipParts[1]) ELSE Undefined,
         zipCode |-> IF Len(parts) >= 4 /\ IsZipCode(parts[4]) THEN parts[4] ELSE zip3]

\* normalizeAddressForPao(input): the normalized street and the rebuilt full address.
normalizeAddressForPao(input) ==
    LET original   == Trim(input)
        components == parseAddressComponents(original)
        normalizedStreet == IF Falsy(components.street) THEN components.street
                            ELSE normalizeStreet(components.street)
        stateZip   == IF ~Falsy(components.state) /\ ~Falsy(components.zipCode)
                         THEN <<components.state \o " " \o components.zipCode>>
                      ELSE IF ~Falsy(components.state) THEN <<components.state>>
                      ELSE IF ~Falsy(components.zipCode) THEN <<components.zipCode>>
                      ELSE <<>>
        parts      == (IF Falsy(normalizedStreet) THEN <<>> ELSE <<normalizedStreet>>)
                      \o (IF Falsy(components.city) THEN <<>> ELSE <<components.city>>)
                      \o stateZip
    IN  [original         |-> original,
         normalizedStreet |-> normalizedStreet,
         normalizedFull   |-> Join(parts, ", "),
         wasNormalized    |-> ~Falsy(components.street) /\ normalizedStreet # components.street]

\* parseAddress(address) of the scraper and of property-search: comma split, no validation.
parseAddress(address) ==
    LET raw   == SplitChar(address, ",")
        parts == [i \in 1..Len(raw) |-> Trim(raw[i])]
        stateZip == IF Len(parts) >= 3 THEN SplitChar(parts[3], " ") ELSE <<>>
    IN  [street  |-> parts[1],
         city    |-> IF Len(parts) >= 2 THEN parts[2] ELSE Undefined,
         state   |-> IF Len(parts) >= 3 THEN stateZip[1] ELSE Undefined,
         zipCode |-> IF Len(parts) >= 4 THEN parts[4]
                     ELSE IF Len(stateZip) > 1 THEN stateZip[2] ELSE Undefined]

(***************************************************************************)
(* Regular expressions of the scraper, as position searches                *)
(***************************************************************************)

\* The program constant of every parcel pattern: \d{10}.
PARCEL_ID_DIGITS == 10

WordChars == Digits \cup DOMAIN UpperToLower \cup DOMAIN LowerToUpper \cup {"_"}

\* key (already lower case) occurs in s at position i, whatever the case of s.
KeyAt(s, i, key) ==
    /\ i >= 1
    /\ i + Len(key) - 1 <= Len(s)
    /\ \A j \in 1..Len(key) : ToLowerCase(Ch(s, i + j - 1)) = Ch(key, j)

\* \d{10} at position i.
ParcelDigitsAt(s, i) ==
    i >= 1 /\ i + PARCEL_ID_DIGITS - 1 <= Len(s) /\ IsAllDigits(SubSeq(s, i, i + PARCEL_ID_DIGITS - 1))

ParcelDigits(s, i) == SubSeq(s, i, i + PARCEL_ID_DIGITS - 1)

\* The least element of a non-empty set of positions.
MinPos(P) == CHOOSE i \in P : \A j \in P : i <= j

\* First position >= i of s whose character is not in skip (Len(s) + 1 when there is none).
SkipChars(s, i, skip) ==
    MinPos({j \in i..(Len(s) + 1) : j = Len(s) + 1 \/ Ch(s, j) \notin skip})

\* The capture of the leftmost match of  <prefix><key>=(\d{10})  with key in keys, or Undefined.
\* Positions where the digits start, over every key.
KeyValueStarts(s, prefixes, keys) ==
    {d \in 1..Len(s) :
        /\ ParcelDigitsAt(s, d)
        /\ \E key \in keys, pre \in prefixes :
              KeyAt(s, d - Len(key) - 1 - Len(pre), pre \o key \o "=")}

KeyValueCapture(s, prefixes, keys) ==
    LET starts == KeyValueStarts(s, prefixes, keys)
    IN  IF starts = {} THEN Undefined ELSE ParcelDigits(s, MinPos(starts))

\* url.match(/(?:parid|parcel|parcelid)=(\d{10})/i)?.[1]
extractParcelIdFromUrl(url) == KeyValueCapture(url, {""}, {"parid", "parcel", "parcelid"})

\* currentUrl.match(/[?&]parid=(\d{10})/i)
directParcelMatch(url) == KeyValueCapture(url, {"?", "&"}, {"parid"})

\* url.match(/parcel\?(?:parid|parcel)=(\d{10})/i) of the Exa fallback.
exaUrlParcelMatch(url) == KeyValueCapture(url, {"parcel?"}, {"parid", "parcel"})

\* text.match(/\b(\d{10})\b/): ten digits between word boundaries.
BoundedParcelStarts(text) ==
    {d \in 1..Len(text) :
        /\ ParcelDigitsAt(text, d)
        /\ (d = 1 \/ Ch(text, d - 1) \notin WordChars)
        /\ (d + PARCEL_ID_DIGITS > Len(text) \/ Ch(text, d + PARCEL_ID_DIGITS) \notin WordChars)}

textParcelMatch(text) ==
    IF BoundedParcelStarts(text) = {} THEN Undefined
    ELSE ParcelDigits(text, MinPos(BoundedParcelStarts(text)))

\* Digit starts of  <keyword>\s*(?:alt1|alt2|...)?[:\s]*(\d{10})  in text.
LabelledParcelStarts(text, keyword, alts) ==
    LET afterKeyword == {SkipChars(text, k + Len(keyword), {" "}) :
                            k \in {k \in 1..Len(text) : KeyAt(text, k, keyword)}}
        afterAlt == UNION {{SkipChars(text, j + Len(alt), {":", " "}) :
                               alt \in {a \in alts \cup {""} : a = "" \/ KeyAt(text, j, a)}} :
                           j \in afterKeyword}
    IN  {d \in afterAlt : ParcelDigitsAt(text, d)}

\* The first capture findParcelIdViaExa takes from a result text: its three patterns in order.
exaTextParcelMatch(text) ==
    LET p1 == LabelledParcelStarts(text, "parcel", {"id", "#", "number"})
        p2 == LabelledParcelStarts(text, "account", {"#", "number"})
        p3 == BoundedParcelStarts(text)
    IN  IF p1 # {} THEN ParcelDigits(text, MinPos(p1))
        ELSE IF p2 # {} THEN ParcelDigits(text, MinPos(p2))
        ELSE IF p3 # {} THEN ParcelDigits(text, MinPos(p3))
        ELSE Undefined

(***************************************************************************)
(* Blocking detector and results-page parsing                              *)
(***************************************************************************)

\* blockPatterns of detectBlocking, in order.
BlockPatterns ==
    << [pattern |-> "recaptcha",              reason |-> "reCAPTCHA detected"],
       [pattern |-> "hcaptcha",               reason |-> "hCaptcha detected"],
       [pattern |-> "solve this captcha",     reason |-> "CAPTCHA detected"],
       [pattern |-> "complete the captcha",   reason |-> "CAPTCHA detected"],
       [pattern |-> "verify you are human",   reason |-> "Human verification required"],
       [pattern |-> "prove you're not a robot", reason |-> "Human verification required"],
       [pattern |-> "i'm not a robot",        reason |-> "Human verification required"],
       [pattern |-> "checking your browser",  reason |-> "Cloudflare protection detected"],
       [pattern |-> "ray id:",                reason |-> "Cloudflare protection detected"],
       [pattern |-> "enable javascript and cookies", reason |-> "Cloudflare protection detected"],
       [pattern |-> "access to this page has been denied", reason |-> "Access denied"],
       [pattern |-> "you have been blocked",  reason |-> "IP blocked"],
       [pattern |-> "your ip has been blocked", reason |-> "IP blocked"],
       [pattern |-> "your access has been blocked", reason |-> "Access blocked"],
       [pattern |-> "rate limit exceeded",    reason |-> "Rate limited"],
       [pattern |-> "too many requests",      reason |-> "Too many requests"],
       [pattern |-> "please slow down",       reason |-> "Rate limited"],
       [pattern |-> "automated access",       reason |-> "Bot detected"],
       [pattern |-> "unusual traffic",        reason |-> "Bot detected"],
       [pattern |-> "suspicious activity",    reason |-> "Bot detected"] >>

\* detectBlocking(pageContent): the first pattern the lower-cased content includes.
detectBlocking(pageContent) ==
    LET lowerContent == ToLowerCase(pageContent)
        hits == {i \in 1..Len(BlockPatterns) : Includes(lowerContent, BlockPatterns[i].pattern)}
    IN  IF hits = {} THEN [blocked |-> FALSE, reason |-> Undefined]
        ELSE [blocked |-> TRUE, reason |-> BlockPatterns[MinPos(hits)].reason]

NoResultsPatterns ==
    {"no results", "no records found", "no properties found", "no matching", "0 results",
     "zero results", "search returned no"}

\* detectNoResults(html)
detectNoResults(html) == \E p \in NoResultsPatterns : Includes(ToLowerCase(html), p)

\* One <tr> of the results table: the row's text, whether it holds a <th>, and the hrefs of
\* its links in document order.  parseSearchResults keeps, per row, the last link whose href
\* names a parcel page and the parcel id of the last such link that carries one.
RowLinkIndexes(row) ==
    {i \in 1..Len(row.links) :
        Includes(row.links[i], "parcel") \/ Includes(row.links[i], "parid")
            \/ Includes(row.links[i], "detail")}

RowHref(row) ==
    IF RowLinkIndexes(row) = {} THEN Undefined
    ELSE row.links[CHOOSE i \in RowLinkIndexes(row) : \A j \in RowLinkIndexes(row) : j <= i]

RowParcelId(row) ==
    LET withId == {i \in RowLinkIndexes(row) : extractParcelIdFromUrl(row.links[i]) # Undefined}
    IN  IF withId # {}
        THEN extractParcelIdFromUrl(row.links[CHOOSE i \in withId : \A j \in withId : j <= i])
        ELSE textParcelMatch(Trim(row.text))

\* parseSearchResults(html): the rows of the first table selector that yields any.
RECURSIVE parseRows(_)
parseRows(trs) ==
    IF Len(trs) = 0 THEN <<>>
    ELSE LET row  == trs[1]
             text == Trim(row.text)
             keep == ~row.header /\ text # ""
                     /\ (RowHref(row) # Undefined \/ RowParcelId(row) # Undefined)
         IN  (IF keep THEN <<[href |-> RowHref(row), text |-> text, parcelId |-> RowParcelId(row)]>>
              ELSE <<>>) \o parseRows(Tail(trs))

parseSearchResults(page) == parseRows(page.rows)

(***************************************************************************)
(* Result matcher                                                          *)
(***************************************************************************)

\* streetNumber and streetName as selectBestResult and searchManateePAO split them.
StreetParts(street) == SplitWhitespace(IF street = Undefined THEN "" ELSE street)

StreetNumberOf(street) == StreetParts(street)[1]

StreetNameOf(street) == Join(Slice1(StreetParts(street)), " ")

\* streetName.split(" ").some(w => w.length > 2 && text.includes(w))
HasStreetNameWord(text, streetName) ==
    LET words == SplitChar(streetName, " ")
    IN  \E i \in 1..Len(words) : Len(words[i]) > 2 /\ Includes(text, words[i])

\* A matcher that is content with the street number.
RowMatchesNumber(row, streetNumber, streetName) ==
    Includes(ToLowerCase(row.text), streetNumber)

\* The row test of selectBestResult's loop.
RowMatches(row, streetNumber, streetName) ==
    LET rowTextLower == ToLowerCase(row.text)
    IN  Includes(rowTextLower, streetNumber) /\ HasStreetNameWord(rowTextLower, streetName)

RowUrl(row) ==
    IF ~Falsy(row.href) THEN row.href
    ELSE IF ~Falsy(row.parcelId) THEN "/parcel/?parid=" \o row.parcelId
    ELSE Undefined

Substring100(s) == SubSeq(s, 1, IF Len(s) < 100 THEN Len(s) ELSE 100)

\* selectBestResult(rows, searchAddress)
selectBestResult(rows, searchAddress) ==
    LET street       == ToLowerCase(parseAddress(searchAddress).street)
        streetNumber == StreetNumberOf(street)
        streetName   == StreetNameOf(street)
        matching     == {i \in 1..Len(rows) : RowMatches(rows[i], streetNumber, streetName)}
    IN  IF matching # {}
        THEN LET row == rows[MinPos(matching)]
             IN  [href |-> RowUrl(row), addressFound |-> TRUE,
                  matchedText |-> Substring100(row.text)]
        ELSE IF Len(rows) = 0
             THEN [href |-> Undefined, addressFound |-> FALSE, matchedText |-> Undefined]
        ELSE [href |-> RowUrl(rows[1]), addressFound |-> FALSE,
              matchedText |-> Substring100(rows[1].text)]

PAO_BASE_URL == "https://www.manateepao.gov"

PAO_SEARCH_URL == "https://www.manateepao.gov/search/"

StartsWith(s, pre) == Len(s) >= Len(pre) /\ SubSeq(s, 1, Len(pre)) = pre

\* The "construct full URL" step that follows selectBestResult.
FullDetailUrl(href) ==
    IF StartsWith(href, "http") THEN href
    ELSE PAO_BASE_URL \o (IF StartsWith(href, "/") THEN "" ELSE "/") \o href

(***************************************************************************)
(* Exa fallback                                                            *)
(***************************************************************************)

\* "Check if this result mentions our address" of findParcelIdViaExa.
ExaResultMentionsAddress(result, streetNumber, streetName) ==
    LET text  == ToLowerCase(result.text)
        title == ToLowerCase(result.title)
        words == SplitChar(streetName, " ")
        hasStreetNumber == Includes(text, streetNumber) \/ Includes(title, streetNumber)
        hasStreetName   == \E i \in 1..Len(words) :
                              Len(words[i]) > 2
                                /\ (Includes(text, words[i]) \/ Includes(title, words[i]))
    IN  hasStreetNumber \/ hasStreetName

\* The parcel id one result yields: from its URL, else from its lower-cased text.
ExaResultParcelId(result) ==
    IF exaUrlParcelMatch(result.url) # Undefined THEN exaUrlParcelMatch(result.url)
    ELSE exaTextParcelMatch(ToLowerCase(result.text))

\* The result loop of findParcelIdViaExa: index of the result whose parcel id is returned, or 0.
ExaChosenIndex(results, address) ==
    LET street       == parseAddress(address).street
        streetNumber == StreetNumberOf(street)
        streetName   == ToLowerCase(StreetNameOf(street))
        usable == {i \in 1..Len(results) :
                      /\ ExaResultMentionsAddress(results[i], streetNumber, streetName)
                      /\ ExaResultParcelId(results[i]) # Undefined}
    IN  IF usable = {} THEN 0 ELSE MinPos(usable)

\* findParcelIdViaExa(address) given the search service's answer (throws: the call rejected).
findParcelIdViaExa(address, response) ==
    IF response.throws \/ Len(response.results) = 0 THEN Undefined
    ELSE IF ExaChosenIndex(response.results, address) = 0 THEN Undefined
    ELSE ExaResultParcelId(response.results[ExaChosenIndex(response.results, address)])


(***************************************************************************)
(* Section parsers of the detail page                                      *)
(*                                                                         *)
(* The HTML of a section is the sequence of its tables; a table is the     *)
(* text of its header cells and its body rows, a row the texts of its td   *)
(* cells.  An optional number is <<>> (undefined, NaN) or <<n>>.           *)
(***************************************************************************)

\* parseInt(s, 10) and, for the whole amounts the tables carry, parseFloat(s): the number
\* written by the leading digits after leading blanks, NaN when there is none.
ParseInt(s) ==
    LET t == TrimStart(s)
        n == SkipChars(t, 1, Digits) - 1
        digit(c) == CHOOSE d \in 0..9 :
                        <<"0", "1", "2", "3", "4", "5", "6", "7", "8", "9">>[d + 1] = c
        value[i \in 0..n] == IF i = 0 THEN 0 ELSE 10 * value[i - 1] + digit(Ch(t, i))
    IN  IF n = 0 THEN <<>> ELSE <<value[n]>>

\* s.replace(/[...]/g, "") for a class of single characters.
RECURSIVE RemoveChars(_, _)
RemoveChars(s, drop) ==
    IF Len(s) = 0 THEN ""
    ELSE (IF Ch(s, 1) \in drop THEN "" ELSE Ch(s, 1)) \o RemoveChars(SubSeq(s, 2, Len(s)), drop)

parseMoney(text) ==
    IF Falsy(text) THEN <<>> ELSE ParseInt(RemoveChars(text, {"$", ",", " "}))

\* `n || 0' for an optional number.
OrZero(n) == IF n = <<>> THEN 0 ELSE n[1]

\* The records pushed by an each() over a list, those of lists[1] first: the concatenation
\* of the lists.
Flatten(lists) ==
    LET upTo[i \in 0..Len(lists)] == IF i = 0 THEN <<>> ELSE upTo[i - 1] \o lists[i]
    IN  upTo[Len(lists)]

\* Array.prototype.sort, stable, with a comparator that puts a before b when both have a
\* number as key and a's is the larger one; key[i] is the key of list[i].
SortStable(list, key) ==
    LET order[i \in 0..Len(list)] ==
            IF i = 0 THEN <<>>
            ELSE LET done == order[i - 1]
                     before(k) == /\ key[i] # <<>>
                                  /\ key[done[k]] # <<>>
                                  /\ key[i][1] > key[done[k]][1]
                     at == MinPos({k \in 1..(Len(done) + 1) : k = Len(done) + 1 \/ before(k)})
                 IN  SubSeq(done, 1, at - 1) \o <<i>> \o SubSeq(done, at, Len(done))
    IN  [k \in 1..Len(list) |-> list[order[Len(list)][k]]]

\* In the parsers below cell(cells, i) is $(cells[i]).text(): the text of the i-th cell
\* counted from 0, "" when the row has no such cell.
parseValuationsTable(tables) ==
    LET cell(cells, i) == IF i + 1 <= Len(cells) THEN cells[i + 1] ELSE ""
        isValues(t) == \E w \in {"year", "land", "market", "value"} :
                           Includes(ToLowerCase(t.header), w)
        fromRow(cells) ==
            LET year == ParseInt(Trim(cell(cells, 0)))
            IN  IF Len(cells) < 4 THEN <<>>
                ELSE IF year # <<>> /\ (year[1] < 2000 \/ year[1] > 2100) THEN <<>>
                ELSE <<[year |-> year,
                        justLand |-> parseMoney(cell(cells, 2)),
                        justBuilding |-> parseMoney(cell(cells, 3)),
                        justTotal |-> parseMoney(cell(cells, 4)),
                        assessedTotal |->
                            IF Len(cells) > 5 THEN parseMoney(cell(cells, 5)) ELSE <<>>,
                        taxableTotal |->
                            IF Len(cells) > 7 THEN parseMoney(cell(cells, 7)) ELSE <<>>,
                        adValoremTaxes |->
                            IF Len(cells) > 9 THEN parseMoney(cells[Len(cells) - 1]) ELSE <<>>,
                        nonAdValoremTaxes |->
                            IF Len(cells) > 9 THEN parseMoney(cells[Len(cells)]) ELSE <<>>]>>
        rows == Flatten([i \in 1..Len(tables) |->
                            IF isValues(tables[i]) THEN tables[i].rows ELSE <<>>])
        valuations == Flatten([i \in 1..Len(rows) |-> fromRow(rows[i])])
    IN  SortStable(valuations, [i \in 1..Len(valuations) |-> <<OrZero(valuations[i].year)>>])

\* \d{1,2}\/\d{1,2}\/\d{4} at position j.
DateAt(s, j) ==
    \E a \in 1..2, b \in 1..2 :
        /\ j + a + b + 5 <= Len(s)
        /\ IsAllDigits(SubSeq(s, j, j + a - 1))
        /\ Ch(s, j + a) = "/"
        /\ IsAllDigits(SubSeq(s, j + a + 1, j + a + b))
        /\ Ch(s, j + a + b + 1) = "/"
        /\ IsAllDigits(SubSeq(s, j + a + b + 2, j + a + b + 5))

\* dateText.match(/\d{1,2}\/\d{1,2}\/\d{4}/): the leftmost match, "" when there is none.
DateMatch(s) ==
    LET at == {j \in 1..Len(s) : DateAt(s, j)}
    IN  IF at = {} THEN ""
        ELSE LET j == MinPos(at)
                 a == IF Ch(s, j + 1) \in Digits /\ Ch(s, j + 2) = "/" THEN 2 ELSE 1
                 b == IF Ch(s, j + a + 2) \in Digits /\ Ch(s, j + a + 3) = "/" THEN 2 ELSE 1
             IN  SubSeq(s, j, j + a + b + 5)

\* new Date("m/d/yyyy").getTime(), as a number that orders the dates; NaN for other texts.
DateTime(date) ==
    IF date = "" \/ DateMatch(date) # date THEN <<>>
    ELSE LET p == SplitChar(date, "/")
         IN  <<ParseInt(p[3])[1] * 10000 + ParseInt(p[1])[1] * 100 + ParseInt(p[2])[1]>>

parseSalesTable(tables) ==
    LET cell(cells, i) == IF i + 1 <= Len(cells) THEN Trim(cells[i + 1]) ELSE ""
        orUndefined(text) == IF text = "" THEN Undefined ELSE text
        isSales(t) == \E w \in {"sale", "grantee", "price"} : Includes(ToLowerCase(t.header), w)
        fromRow(cells) ==
            LET dateText == cell(cells, 0)
                date == IF DateMatch(dateText) # "" THEN DateMatch(dateText) ELSE dateText
                price == parseMoney(cell(cells, 5))
            IN  IF Len(cells) < 5 THEN <<>>
                ELSE IF date = "" /\ OrZero(price) = 0 THEN <<>>
                ELSE <<[date |-> date,
                        bookPage |-> orUndefined(cell(cells, 1)),
                        deedType |-> orUndefined(cell(cells, 2)),
                        vacantOrImproved |-> orUndefined(cell(cells, 3)),
                        qualificationCode |-> orUndefined(cell(cells, 4)),
                        price |-> price,
                        grantee |-> orUndefined(cell(cells, 6))]>>
        rows == Flatten([i \in 1..Len(tables) |->
                            IF isSales(tables[i]) THEN tables[i].rows ELSE <<>>])
        sales == Flatten([i \in 1..Len(rows) |-> fromRow(rows[i])])
    IN  SortStable(sales, [i \in 1..Len(sales) |-> DateTime(sales[i].date)])

\* parseBuildingsFromHtml(html).building: the first body row of the tables; columns Yrblt
\* (3), LivBus (7) and Rooms (8, "beds/baths/half baths").
parseBuildingsFromHtml(tables) ==
    LET rows == Flatten([i \in 1..Len(tables) |-> tables[i].rows])
        cells == IF Len(rows) = 0 THEN <<>> ELSE rows[1]
        getValue(i) == IF i + 1 <= Len(cells) THEN Trim(cells[i + 1]) ELSE ""
        parseNumber(text) ==
            IF Falsy(text) THEN <<>> ELSE ParseInt(RemoveChars(text, {",", " "}))
        roomParts == SplitChar(getValue(8), "/")
        bedrooms == IF Len(roomParts) >= 2 THEN ParseInt(roomParts[1]) ELSE <<>>
        bathrooms == IF Len(roomParts) >= 2 THEN ParseInt(roomParts[2]) ELSE <<>>
        halfBaths == IF Len(roomParts) >= 3 /\ roomParts[3] # ""
                     THEN ParseInt(roomParts[3]) ELSE <<0>>
    IN  [yearBuilt |-> IF Len(getValue(3)) = 4 /\ IsAllDigits(getValue(3))
                       THEN ParseInt(getValue(3)) ELSE <<>>,
         livingAreaSqFt |-> IF OrZero(parseNumber(getValue(7))) # 0
                            THEN parseNumber(getValue(7)) ELSE <<>>,
         bedrooms |-> bedrooms,
         fullBathrooms |-> bathrooms,
         halfBathrooms |-> IF bathrooms = <<>> THEN <<>> ELSE halfBaths]

\* parseExtraFeaturesFromHtml(html): every row of every table whose first cell has text is
\* a feature; its value is the first non-zero "$" amount of the cells that follow (the last
\* amount read when all are zero).
parseExtraFeaturesFromHtml(tables) ==
    LET \* /\$[\d,]+/ : the leftmost "$" followed by digits or commas, with that run.
        moneyMatch(s) ==
            LET at == {j \in 1..(Len(s) - 1) :
                          Ch(s, j) = "$" /\ Ch(s, j + 1) \in Digits \cup {","}}
            IN  IF at = {} THEN ""
                ELSE SubSeq(s, MinPos(at),
                            SkipChars(s, MinPos(at) + 1, Digits \cup {","}) - 1)
        amountOf(c) == parseMoney(moneyMatch(Trim(c)))
        fromRow(cells) ==
            LET priced == SelectSeq(SubSeq(cells, 2, Len(cells)),
                                    LAMBDA c : moneyMatch(Trim(c)) # "")
                nonZero == SelectSeq(priced, LAMBDA c : OrZero(amountOf(c)) # 0)
            IN  IF Len(cells) = 0 \/ Trim(cells[1]) = "" THEN <<>>
                ELSE <<[description |-> Trim(cells[1]),
                        value |-> IF Len(nonZero) > 0 THEN amountOf(nonZero[1])
                                  ELSE IF Len(priced) > 0 THEN amountOf(priced[Len(priced)])
                                  ELSE <<>>]>>
        rows == Flatten([i \in 1..Len(tables) |-> tables[i].rows])
    IN  Flatten([i \in 1..Len(rows) |-> fromRow(rows[i])])

\* parseInspectionsFromHtml(html): a row of two or more cells gives its date (first cell
\* with a date) and its type (first other text of 3 to 49 characters in the first two
\* cells); rows with neither are dropped.
parseInspectionsFromHtml(tables) ==
    LET \* /\d{1,2}\/\d{1,2}\/\d{2,4}/ : the leftmost match, "" when there is none.
        dateMatch(s) ==
            LET ends(j) == {k \in j..Len(s) :
                              \E a \in 1..2, b \in 1..2, y \in 2..4 :
                                  /\ k = j + a + b + y + 1
                                  /\ IsAllDigits(SubSeq(s, j, j + a - 1))
                                  /\ Ch(s, j + a) = "/"
                                  /\ IsAllDigits(SubSeq(s, j + a + 1, j + a + b))
                                  /\ Ch(s, j + a + b + 1) = "/"
                                  /\ IsAllDigits(SubSeq(s, j + a + b + 2, k))}
                at == {j \in 1..Len(s) : ends(j) # {}}
            IN  IF at = {} THEN ""
                ELSE SubSeq(s, MinPos(at), CHOOSE k \in ends(MinPos(at)) :
                                               \A other \in ends(MinPos(at)) : other <= k)
        fromRow(cells) ==
            LET dated == {i \in 1..Len(cells) : dateMatch(Trim(cells[i])) # ""}
                typed == {i \in 1..Len(cells) :
                            /\ i <= 2
                            /\ Len(Trim(cells[i])) > 2 /\ Len(Trim(cells[i])) < 50
                            /\ (dated = {} \/ i # MinPos(dated))}
            IN  IF Len(cells) < 2 \/ (dated = {} /\ typed = {}) THEN <<>>
                ELSE <<[date |-> IF dated = {} THEN Undefined
                                 ELSE dateMatch(Trim(cells[MinPos(dated)])),
                        type |-> IF typed = {} THEN Undefined
                                 ELSE Trim(cells[MinPos(typed)])]>>
        rows == Flatten([i \in 1..Len(tables) |-> tables[i].rows])
    IN  Flatten([i \in 1..Len(rows) |-> fromRow(rows[i])])

(***************************************************************************)
(* Reading the sections of the detail page                                 *)
(*                                                                         *)
(* A section of the page, as the driver meets it, is the state of its tab  *)
(* ("missing", "enabled", "disabled"), the tables its selector finds       *)
(* before any click, the tables it finds when the driver reads after a     *)
(* click, and whether a Playwright call on it throws.                      *)
(***************************************************************************)

\* clickTabAndExtractTable(page, tabSelector, tableSelector, description): the HTML read
\* (`string | null'), and whether the tab was clicked on the way.
clickTabAndExtractTable(section) ==
    LET rowCount == Len(Flatten([i \in 1..Len(section.initial) |-> section.initial[i].rows]))
        clicks == section.tab = "enabled"
        dom == IF clicks THEN section.afterClick ELSE section.initial
        null(clicked) == [present |-> FALSE, tables |-> <<>>, clicked |-> clicked]
    IN  IF section.throws THEN null(FALSE)
        ELSE IF Len(section.initial) > 0 /\ rowCount > 0
        THEN [present |-> TRUE, tables |-> section.initial, clicked |-> FALSE]
        ELSE IF section.tab = "missing" THEN null(FALSE)
        ELSE IF Len(dom) = 0 THEN null(clicks)
        ELSE [present |-> TRUE, tables |-> dom, clicked |-> clicks]

\* A reading of the sections that stops at the first Playwright call that throws.
extractSectionsUntilThrow(page) ==
    LET order == <<"sales", "inspections", "values", "buildings", "features">>
        read(i) == IF \E j \in 1..i : page.tabs[order[j]].throws
                   THEN [present |-> FALSE, tables |-> <<>>, clicked |-> FALSE]
                   ELSE clickTabAndExtractTable(page.tabs[order[i]])
    IN  [ownerHtml |-> page.ownerHtml, salesHtml |-> read(1), inspectionsHtml |-> read(2),
         valuesHtml |-> read(3), buildingsHtml |-> read(4), featuresHtml |-> read(5)]

\* extractMainPageSections(page): the owner block and the five tabs, each read on its own.
extractMainPageSections(page) ==
    [ownerHtml |-> page.ownerHtml,
     salesHtml |-> clickTabAndExtractTable(page.tabs.sales),
     inspectionsHtml |-> clickTabAndExtractTable(page.tabs.inspections),
     valuesHtml |-> clickTabAndExtractTable(page.tabs.values),
     buildingsHtml |-> clickTabAndExtractTable(page.tabs.buildings),
     featuresHtml |-> clickTabAndExtractTable(page.tabs.features)]
(***************************************************************************)
(* Detail-page extraction and the final checks of searchManateePAO         *)
(***************************************************************************)

\* Partial<PropertyDetails> with nothing set: {}.
EmptyScraped ==
    [parcelId |-> Undefined, address |-> Undefined, owner |-> Undefined,
     propertyType |-> Undefined, assessedValue |-> <<>>, marketValue |-> <<>>, taxAmount |-> <<>>,
     lastSalePrice |-> <<>>, lastSaleDate |-> Undefined,
     valuations |-> <<>>, salesHistory |-> <<>>,
     building |-> [yearBuilt |-> <<>>, livingAreaSqFt |-> <<>>, bedrooms |-> <<>>,
                   fullBathrooms |-> <<>>, halfBathrooms |-> <<>>],
     paoExtraFeatures |-> <<>>, inspections |-> <<>>]

\* value.replace(/Go to.*$/i, ""): the text from the first "go to" on is dropped.
RemoveGoTo(s) ==
    LET at == {i \in 1..Len(s) : KeyAt(s, i, "go to")}
    IN  IF at = {} THEN s ELSE SubSeq(s, 1, MinPos(at) - 1)

\* value.replace(/\[.*?\]/g, ""): every bracketed piece is dropped, leftmost shortest first.
RECURSIVE RemoveBracketed(_)
RemoveBracketed(s) ==
    LET opens == {i \in 1..Len(s) : Ch(s, i) = "[" /\ \E j \in (i + 1)..Len(s) : Ch(s, j) = "]"}
    IN  IF opens = {} THEN s
        ELSE LET i == MinPos(opens)
                 j == MinPos({k \in (i + 1)..Len(s) : Ch(s, k) = "]"})
             IN  SubSeq(s, 1, i - 1) \o RemoveBracketed(SubSeq(s, j + 1, Len(s)))

\* cleanValue of parseOwnerInfoFromMainPageHtml.
cleanValue(value) ==
    IF Falsy(value) THEN Undefined
    ELSE Trim(CollapseWhitespace(RemoveBracketed(RemoveGoTo(value))))

\* ownerName.replace(/\s+\d{1,2}\/\d{1,2}\/\d{4}.*$/, "")
RemoveTrailingDate(s) ==
    LET at == {i \in 1..Len(s) : Ch(s, i) = " " /\ DateAt(s, SkipChars(s, i, {" "}))}
    IN  IF at = {} THEN s ELSE SubSeq(s, 1, MinPos(at) - 1)

\* parseOwnerInfoFromMainPageHtml(html): owner from the Ownership label (first piece before
\* a semicolon, without a trailing date), address from the Situs Address label; it never
\* sets parcelId.
parseOwnerInfoFromMainPageHtml(ownerHtml) ==
    [EmptyScraped EXCEPT
        !.address = IF Falsy(cleanValue(ownerHtml.situs)) THEN Undefined
                    ELSE cleanValue(ownerHtml.situs),
        !.owner   = IF Falsy(ownerHtml.ownership) THEN Undefined
                    ELSE Trim(RemoveTrailingDate(Trim(SplitChar(ownerHtml.ownership, ";")[1])))]

NoOwnerContent == [ownership |-> Undefined, situs |-> Undefined, present |-> FALSE]

\* extractSupplementalFromMainPage(page): every section that was read is parsed into its
\* own fields of the record; the summary values (marketValue, lastSalePrice, ...) are never
\* written.
extractSupplementalFromMainPage(page) ==
    LET sections == extractMainPageSections(page)
        supplemental == IF sections.ownerHtml.present
                        THEN parseOwnerInfoFromMainPageHtml(sections.ownerHtml)
                        ELSE EmptyScraped
        parsed(html, Parser(_), missing) ==
            IF html.present THEN Parser(html.tables) ELSE missing
    IN  [supplemental EXCEPT
            !.valuations = parsed(sections.valuesHtml, parseValuationsTable, <<>>),
            !.salesHistory = parsed(sections.salesHtml, parseSalesTable, <<>>),
            !.building = parsed(sections.buildingsHtml, parseBuildingsFromHtml,
                               EmptyScraped.building),
            !.paoExtraFeatures =
                parsed(sections.featuresHtml, parseExtraFeaturesFromHtml, <<>>),
            !.inspections = parsed(sections.inspectionsHtml, parseInspectionsFromHtml, <<>>)]

\* page.content(): the markup the blocking and no-results detectors scan.
RECURSIVE RowsMarkup(_)
RowsMarkup(trs) ==
    IF Len(trs) = 0 THEN "" ELSE trs[1].text \o " " \o RowsMarkup(Tail(trs))

Content(page) ==
    page.text \o " " \o RowsMarkup(page.rows)
        \o (IF Falsy(page.ownerHtml.ownership) THEN "" ELSE " " \o page.ownerHtml.ownership)
        \o (IF Falsy(page.ownerHtml.situs) THEN "" ELSE " " \o page.ownerHtml.situs)

\* PropertySearchResult
Failure(message) ==
    [success |-> FALSE, error |-> message, property |-> Undefined, source |-> "manatee_pao"]

Success(property) ==
    [success |-> TRUE, error |-> Undefined, property |-> property, source |-> "manatee_pao"]

\* normalizePropertyDetails(inputAddress, scraped, {detailUrl})
normalizePropertyDetails(inputAddress, scraped, detailUrl) ==
    [parcelId  |-> scraped.parcelId,
     address   |-> IF Falsy(scraped.address) THEN inputAddress ELSE scraped.address,
     owner     |-> scraped.owner,
     \* scraped.propertyType || scraped.basicInfo?.useDescription || "Residential": the
     \* extraction of the main page sets neither of the two.
     propertyType |-> IF Falsy(scraped.propertyType) THEN "Residential"
                      ELSE scraped.propertyType,
     sqft      |-> scraped.building.livingAreaSqFt,
     assessedValue |-> scraped.assessedValue,
     \* scraped.marketValue || (scraped.assessedValue ? Math.round(assessedValue * 1.15) : undefined)
     marketValue |->
         IF OrZero(scraped.marketValue) # 0 THEN scraped.marketValue
         ELSE IF OrZero(scraped.assessedValue) # 0
              THEN <<(scraped.assessedValue[1] * 115 + 50) \div 100>>
              ELSE <<>>,
     lastSalePrice |-> scraped.lastSalePrice,
     lastSaleDate |-> scraped.lastSaleDate,
     taxAmount |-> scraped.taxAmount,
     valuations |-> scraped.valuations,
     salesHistory |-> scraped.salesHistory,
     building |-> scraped.building,
     paoExtraFeatures |-> scraped.paoExtraFeatures,
     inspections |-> scraped.inspections,
     detailUrl |-> detailUrl]

\* "Validate that extracted address matches searched address" of searchManateePAO.
addressMatches(scraped, searchAddress) ==
    LET extractedAddress == ToLowerCase(IF Falsy(scraped.address) THEN "" ELSE scraped.address)
        street == parseAddress(searchAddress).street
    IN  /\ Includes(extractedAddress, StreetNumberOf(street))
        /\ HasStreetNameWord(extractedAddress, ToLowerCase(StreetNameOf(street)))

\* The rejection test that follows it.
AddressMismatch(scraped, cleanAddress, searchAddress) ==
    LET extractedAddress == ToLowerCase(IF Falsy(scraped.address) THEN "" ELSE scraped.address)
    IN  /\ ~addressMatches(scraped, searchAddress)
        /\ extractedAddress # ""
        /\ extractedAddress # ToLowerCase(cleanAddress)

\* searchManateePAO from "if (!detailUrl)" to its return.
FinalResult(cleanAddress, searchAddress, detailUrl, scraped) ==
    IF Falsy(detailUrl) THEN Failure("Property not found")
    ELSE IF Falsy(scraped.parcelId) /\ Falsy(scraped.owner) /\ Falsy(scraped.address)
         THEN Failure("Could not extract property details")
    ELSE IF AddressMismatch(scraped, cleanAddress, searchAddress)
         THEN Failure("Address verification failed")
    ELSE Success(normalizePropertyDetails(cleanAddress, scraped, detailUrl))

\* A catch block that reports the failure without a message.
CatchResultWithoutMessage(error) == Failure(Undefined)

\* The catch block of searchManateePAO: the message chosen for a thrown error.
CatchResult(error) ==
    IF error = "BLOCKED" THEN Failure("The property search service detected automated access")
    ELSE IF error = "TIMEOUT" \/ error = "TimeoutError" THEN Failure("Property search timed out")
    ELSE IF error = "BROWSER_LAUNCH_FAILED"
         THEN Failure("Property search service is temporarily unavailable")
    ELSE Failure("Property search failed")

(***************************************************************************)
(* Search driver: classification of the page that follows the submit       *)
(***************************************************************************)

NoFind ==
    [ran |-> FALSE, detailUrl |-> Undefined, addressFound |-> FALSE,
     alreadyOnDetailPage |-> FALSE, rowsFound |-> 0, noResultsDetected |-> FALSE,
     matchedText |-> Undefined]

\* findManateePaoDetailUrlOnPage from "Get results page content" to its return, for a page
\* that passed the blocking check or is a direct redirect.
findDetailUrlOnResultsPage(page, address) ==
    LET rows  == parseSearchResults(page)
        match == selectBestResult(rows, address)
    IN  IF directParcelMatch(page.url) # Undefined
        THEN [NoFind EXCEPT !.ran = TRUE, !.detailUrl = page.url, !.addressFound = TRUE,
                            !.alreadyOnDetailPage = TRUE]
        ELSE IF Len(rows) = 0
        THEN [NoFind EXCEPT !.ran = TRUE, !.noResultsDetected = detectNoResults(Content(page))]
        ELSE [NoFind EXCEPT !.ran = TRUE, !.rowsFound = Len(rows),
                            !.detailUrl = IF Falsy(match.href) THEN Undefined
                                          ELSE FullDetailUrl(match.href),
                            !.addressFound = match.addressFound,
                            !.matchedText = match.matchedText]

\* The results page is checked for blocking only when it is not a direct redirect.
ResultsPageBlocked(page) ==
    directParcelMatch(page.url) = Undefined /\ detectBlocking(Content(page)).blocked

\* A driver that takes any link the search produced, confirmed or not.
OrchestratorAcceptsAnyLink(findResult) == ~Falsy(findResult.detailUrl)

\* scrapeManateePaoPropertyByAddressPlaywright: does the orchestrator go on to the detail page?
OrchestratorAccepts(findResult) == ~Falsy(findResult.detailUrl) /\ findResult.addressFound

\* The catch blocks of the driver's public operations: which errors reach the caller.
ScrapeRethrows(error) == error = "BLOCKED"

ExtractRethrows(error) == FALSE


(***************************************************************************)
(* Merge of two extraction passes                                          *)
(***************************************************************************)

\* A merge in which a supplemental scalar replaces the base one.
mergeOverwriting(base, supplemental) ==
    [field \in DOMAIN base |->
        IF field \in {"owner", "address", "city", "state", "zipCode", "ownerType"}
              /\ ~Falsy(supplemental[field])
        THEN supplemental[field]
        ELSE base[field]]

\* A nested group is a record of its keys' values with a flag telling whether the object
\* exists; a missing list and an empty one are both <<>>.
mergePropertyDetails(base, supplemental) ==
    LET \* `if (!merged.f && supplemental.f) merged.f = supplemental.f'
        fill(field) ==
            IF Falsy(base[field]) /\ ~Falsy(supplemental[field])
            THEN supplemental[field]
            ELSE base[field]
        \* `merged.g = merged.g || {}' and the loop over Object.entries(supplemental.g): a
        \* key is written when the supplemental value is not undefined and the merged one is.
        mergeGroup(baseGroup, supplementalGroup) ==
            IF ~supplementalGroup.present
            THEN baseGroup
            ELSE [key \in DOMAIN baseGroup |->
                    IF key = "present"
                    THEN TRUE
                    ELSE IF supplementalGroup[key] # Undefined /\ baseGroup[key] = Undefined
                         THEN supplementalGroup[key]
                         ELSE baseGroup[key]]
        \* The supplemental entries whose key is not among the existing keys are appended.
        appendNew(existing, added, key) ==
            LET existingKeys == {existing[i][key] : i \in 1..Len(existing)}
            IN  existing \o SelectSeq(added, LAMBDA e : e[key] \notin existingKeys)
        \* The supplemental feature and inspection lists replace the base ones.
        mergeExtras(baseExtras, supplementalExtras) ==
            IF ~supplementalExtras.present
            THEN baseExtras
            ELSE [present |-> TRUE,
                  paoExtraFeatures |->
                      IF ~Falsy(supplementalExtras.paoExtraFeatures)
                      THEN supplementalExtras.paoExtraFeatures
                      ELSE baseExtras.paoExtraFeatures,
                  inspections |->
                      IF ~Falsy(supplementalExtras.inspections)
                      THEN supplementalExtras.inspections
                      ELSE baseExtras.inspections]
    IN  [field \in DOMAIN base |->
            IF field \in {"owner", "address", "city", "state", "zipCode", "ownerType"}
            THEN fill(field)
            ELSE IF field \in {"basicInfo", "building", "land"}
            THEN mergeGroup(base[field], supplemental[field])
            ELSE IF field = "valuations"
            THEN appendNew(base.valuations, supplemental.valuations, "year")
            ELSE IF field = "salesHistory"
            THEN appendNew(base.salesHistory, supplemental.salesHistory, "date")
            ELSE IF field = "extras"
            THEN mergeExtras(base.extras, supplemental.extras)
            ELSE base[field]]
(***************************************************************************)
(* Bounds and the inputs the environment draws from                        *)
(***************************************************************************)

\* Concurrent callers of withPage in ConcSpec.
NumLookups == 2

\* Rows of a results table.
MaxRows == 2

\* Results of one Exa answer.
MaxExaResults == 2

\* chromium.launch / chromium.connect attempts.
MaxLaunches == 2

\* Entries of a valuation or sales list.
MaxEntries == 3

Lookups == 1..NumLookups

\* The lookup whose searchManateePAO call Spec follows step by step.
Main == 1

Inputs ==
    {"4659 56th Terrace East, Bradenton, FL 34208", "4659 56th Ter E, Bradenton, FL 34208",
     "12 Oak Ter", ",", "  "}

RawRows ==
    {[header |-> TRUE,  text |-> "Parcel Address", links |-> <<>>],
     [header |-> FALSE, text |-> "1123702559 4659 56TH TER E BRADENTON",
      links |-> <<"/parcel/?parid=1123702559">>],
     [header |-> FALSE, text |-> "2223334445 3120 OAK TER BRADENTON",
      links |-> <<"https://www.manateepao.gov/parcel/?parid=2223334445">>],
     [header |-> FALSE, text |-> " 3334445556 77 ELM ST PALMETTO ", links |-> <<>>]}

RowLists == UNION {[1..n -> RawRows] : n \in 0..MaxRows}

OwnerBlocks ==
    {NoOwnerContent,
     [present |-> TRUE, ownership |-> "SMITH JOHN 01/15/2019; SMITH TRUST",
      situs |-> "4659 56TH TER E,  BRADENTON, FL 34208"],
     [present |-> TRUE, ownership |-> "DOE JANE", situs |-> "3120 OAK TER, BRADENTON, FL 34205 [map] Go to tax bill"],
     [present |-> TRUE, ownership |-> "DOE JANE", situs |-> Undefined]}

\* The table of each tab of a parcel page, as the site fills it.
SectionTables ==
    [values |->
        [header |-> "Tax Year Homestead Land Value Improvements Just/Market Value Assessed",
         rows |-> <<<<"2023", "Yes", "$70,000", "$210,000", "$280,000", "$240,000",
                      "$240,000", "$190,000">>,
                    <<"2024", "Yes", "$80,000", "$220,000", "$300,000", "$250,000",
                      "$250,000", "$200,000", "", "", "$3,100", "$400">>>>],
     sales |->
        [header |-> "Sale Date Book/Page Instrument Type V/I Qualification Sale Price Grantee",
         rows |-> <<<<"01/15/2019", "2765/1234", "WD", "I", "01", "$250,000", "SMITH JOHN">>,
                    <<"6/30/2021", "2901/0042", "QC", "I", "11", "$100", "SMITH TRUST">>>>],
     buildings |->
        [header |-> "Type Bldg Classification Yrblt Effyr Stories UnRoof LivBus Rooms",
         rows |-> <<<<"SFR", "1", "SINGLE FAMILY", "1987", "1995", "1", "2,400", "1,850",
                      "3/2/1">>>>],
     features |->
        [header |-> "Description Year Area Value",
         rows |-> <<<<"POOL", "1990", "450 SF", "$12,000">>>>],
     inspections |->
        [header |-> "Date Type Result",
         rows |-> <<<<"03/04/2022", "FIELD REVIEW", "Complete">>>>]]

BlankPage ==
    [url |-> "about:blank", text |-> "", rows |-> <<>>, ownerHtml |-> NoOwnerContent,
     tabs |-> [s \in DOMAIN SectionTables |->
                 [tab |-> "missing", initial |-> <<>>, afterClick |-> <<>>,
                  throws |-> FALSE]],
     hasAddressInput |-> FALSE, hasSubmit |-> FALSE]

\* The tabs of a parcel page when each loads its table on a click.
LoadingTabs ==
    [s \in DOMAIN SectionTables |->
        [BlankPage.tabs[s] EXCEPT !.tab = "enabled", !.afterClick = <<SectionTables[s]>>]]

\* What the site can answer to page.goto(PAO_SEARCH_URL).
SearchPages ==
    {[BlankPage EXCEPT !.url = PAO_SEARCH_URL, !.text = t, !.hasAddressInput = a,
                       !.hasSubmit = s] :
        t \in {"Property Search", "Checking your browser before accessing"},
        a \in BOOLEAN, s \in BOOLEAN}

\* What it can answer to a detail-page URL.
DetailPages(url) ==
    {[BlankPage EXCEPT !.url = url, !.text = t, !.ownerHtml = o,
                       !.tabs = IF o.present THEN LoadingTabs ELSE BlankPage.tabs] :
        t \in {"Parcel Details", "Please verify you are human"}, o \in OwnerBlocks}

\* What it can answer to the form submit: a results list, an empty state, a challenge page,
\* or a direct redirect to the one matching parcel.
ResultPages ==
    {[BlankPage EXCEPT !.url = "https://www.manateepao.gov/search/results", !.text = t,
                       !.rows = rs] :
        t \in {"Search Results", "No records found", "Too Many Requests"}, rs \in RowLists}
    \cup DetailPages("https://www.manateepao.gov/parcel/?parid=1123702559")

ExaResultPool ==
    {[url |-> "https://www.manateepao.gov/parcel?parid=1123702559",
      text |-> "4659 56th Ter E Bradenton", title |-> "Parcel"],
     [url |-> "https://www.manateepao.gov/parcel/?parid=2223334445",
      text |-> "Parcel ID: 2223334445 3120 Oak Ter", title |-> "Manatee PAO"],
     [url |-> "https://www.manateepao.gov/about", text |-> "Office hours", title |-> "About"],
     [url |-> "https://www.manateepao.gov/parcel/?parid=3334445556",
      text |-> "Account 3334445556 Elm St 77", title |-> ""]}

ExaResponses ==
    {[throws |-> TRUE, results |-> <<>>]}
    \cup {[throws |-> FALSE, results |-> rs] :
            rs \in UNION {[1..n -> ExaResultPool] : n \in 0..MaxExaResults}}

(***************************************************************************)
(* State                                                                   *)
(***************************************************************************)

VARIABLES
    browserInstance,            \* module variable: 0 (null) or the connected browser
    browserConnectionPromise,   \* module variable: 0 (null) or the launch it stands for
    launches,                   \* state of every launch/connect attempt so far
    contexts,                   \* every BrowserContext created: owner, open, users
    pc,                         \* position of each caller inside withPage
    ctx,                        \* the context withPage created for the caller (0: none)
    awaiting,                   \* the launch whose promise the caller awaits
    outcome,                    \* how the caller's withPage call ended
    lpc,                        \* position of the Main lookup in searchManateePAO
    op,                         \* driver operation whose callback runs: "scrape", "extract"
    fpc,                        \* position inside that callback
    input,                      \* address given to searchManateePAO
    searchAddress,              \* normalized.normalizedFull
    page,                       \* what the callback's Page currently shows
    formAddress,                \* content of the #Address field
    findResult,                 \* result (and debug) of findManateePaoDetailUrlOnPage
    visited,                    \* URLs the current operation's page was sent to
    fnValue,                    \* value the callback returned
    driver,                     \* how the last driver operation ended, as its caller saw it
    detailUrl,                  \* searchManateePAO's detailUrl
    scraped,                    \* searchManateePAO's scraped
    exa,                        \* the Exa fallback call of this lookup
    result,                     \* what searchManateePAO returned
    call,                       \* pure function under study: which one was applied
    args,                       \* the inputs it was applied to
    ret,                        \* what it returned
    argsAfter,                  \* the objects passed as inputs, once it has returned
    propertySearches,           \* rows of the property_searches table, in order of creation
    researchRuns                \* calls of runPropertyResearchAgent so far

browserVars == <<browserInstance, browserConnectionPromise, launches, contexts, pc, ctx,
                 awaiting, outcome>>

lookupVars == <<lpc, op, fpc, input, searchAddress, page, formAddress, findResult, visited,
                fnValue, driver, detailUrl, scraped, exa, result>>

pureVars == <<call, args, ret, argsAfter, propertySearches, researchRuns>>

vars == <<browserVars, lookupVars, pureVars>>

NoOutcome == [kind |-> "none", error |-> "none"]

NoDriver ==
    [op |-> "none", kind |-> "none", error |-> "none", detailUrl |-> Undefined,
     scraped |-> EmptyScraped, markerSeen |-> FALSE, failure |-> "none"]

NoSource == [url |-> "", text |-> "", title |-> ""]

NoExa == [called |-> FALSE, parcelId |-> Undefined, source |-> NoSource]

NoResult == [success |-> FALSE, error |-> "<pending>", property |-> Undefined, source |-> "none"]

InitBrowser ==
    /\ browserInstance = 0
    /\ browserConnectionPromise = 0
    /\ launches = <<>>
    /\ contexts = <<>>
    /\ pc = [r \in Lookups |-> "idle"]
    /\ ctx = [r \in Lookups |-> 0]
    /\ awaiting = [r \in Lookups |-> 0]
    /\ outcome = [r \in Lookups |-> NoOutcome]

InitLookup(start) ==
    /\ lpc = start
    /\ op = "none"
    /\ fpc = "none"
    /\ input = Undefined
    /\ searchAddress = Undefined
    /\ page = BlankPage
    /\ formAddress = ""
    /\ findResult = NoFind
    /\ visited = <<>>
    /\ fnValue = [detailUrl |-> Undefined, scraped |-> EmptyScraped]
    /\ driver = NoDriver
    /\ detailUrl = Undefined
    /\ scraped = EmptyScraped
    /\ exa = NoExa
    /\ result = NoResult

\* No function has been applied.
NotApplied ==
    /\ call = "none"
    /\ args = <<>>
    /\ ret = <<>>
    /\ argsAfter = <<>>
    /\ propertySearches = <<>>
    /\ researchRuns = 0

\* One searchManateePAO call on a fresh process.
Init == InitBrowser /\ InitLookup("start") /\ NotApplied

\* Several withPage callers on a fresh process.
ConcInit == InitBrowser /\ InitLookup("off") /\ NotApplied

(***************************************************************************)
(* Browser manager: getBrowser and withPage                                *)
(***************************************************************************)

\* getBrowser: "if (browserInstance?.isConnected()) return browserInstance".
ReusesBrowser(instance) == instance # 0

\* A getBrowser without the check of browserConnectionPromise.
IgnoresPendingLaunch(instance, promise) == FALSE

\* getBrowser: "if (browserConnectionPromise) return browserConnectionPromise".
JoinsPendingLaunch(instance, promise) == ~ReusesBrowser(instance) /\ promise # 0

\* getBrowser up to its first await: reuse the browser, join the launch in progress, or
\* start a launch and publish its promise.
GetBrowser(r) ==
    /\ pc[r] = "wp_getBrowser"
    /\ IF ReusesBrowser(browserInstance)
       THEN /\ awaiting' = [awaiting EXCEPT ![r] = browserInstance]
            /\ pc' = [pc EXCEPT ![r] = "wp_newContext"]
            /\ UNCHANGED <<launches, browserConnectionPromise>>
       ELSE IF JoinsPendingLaunch(browserInstance, browserConnectionPromise)
       THEN /\ awaiting' = [awaiting EXCEPT ![r] = browserConnectionPromise]
            /\ pc' = [pc EXCEPT ![r] = "wp_awaitBrowser"]
            /\ UNCHANGED <<launches, browserConnectionPromise>>
       ELSE /\ Len(launches) < MaxLaunches
            /\ launches' = Append(launches, "pending")
            /\ browserConnectionPromise' = Len(launches) + 1
            /\ awaiting' = [awaiting EXCEPT ![r] = Len(launches) + 1]
            /\ pc' = [pc EXCEPT ![r] = "wp_awaitBrowser"]
    /\ UNCHANGED <<browserInstance, contexts, ctx, outcome, lookupVars, pureVars>>

\* chromium.launch / chromium.connect resolved: browserInstance is set, the promise stays.
LaunchSucceeds(n) ==
    /\ n \in 1..Len(launches)
    /\ launches[n] = "pending"
    /\ launches' = [launches EXCEPT ![n] = "ok"]
    /\ browserInstance' = n
    /\ UNCHANGED <<browserConnectionPromise, contexts, pc, ctx, awaiting, outcome, lookupVars,
                   pureVars>>

\* It rejected: the catch clears browserConnectionPromise and rethrows.
LaunchFails(n) ==
    /\ n \in 1..Len(launches)
    /\ launches[n] = "pending"
    /\ launches' = [launches EXCEPT ![n] = "failed"]
    /\ browserConnectionPromise' = 0
    /\ UNCHANGED <<browserInstance, contexts, pc, ctx, awaiting, outcome, lookupVars, pureVars>>

\* browser.on("disconnected"): both module variables are cleared.
BrowserDisconnected ==
    /\ browserInstance # 0
    /\ browserInstance' = 0
    /\ browserConnectionPromise' = 0
    /\ UNCHANGED <<launches, contexts, pc, ctx, awaiting, outcome, lookupVars, pureVars>>

\* "const browser = await getBrowser(config)" resumes with the browser.
BrowserResolved(r) ==
    /\ pc[r] = "wp_awaitBrowser"
    /\ launches[awaiting[r]] = "ok"
    /\ pc' = [pc EXCEPT ![r] = "wp_newContext"]
    /\ UNCHANGED <<browserInstance, browserConnectionPromise, launches, contexts, ctx, awaiting,
                   outcome, lookupVars, pureVars>>

\* ... or with the launch error, which leaves withPage.
BrowserRejected(r) ==
    /\ pc[r] = "wp_awaitBrowser"
    /\ launches[awaiting[r]] = "failed"
    /\ pc' = [pc EXCEPT ![r] = "wp_done"]
    /\ outcome' = [outcome EXCEPT ![r] = [kind |-> "threw", error |-> "LaunchError"]]
    /\ UNCHANGED <<browserInstance, browserConnectionPromise, launches, contexts, ctx, awaiting,
                   lookupVars, pureVars>>

\* A pooled context: the first context of the browser is handed to every caller.
PooledContextId(cs) == 1

\* browser.newContext(): the context a withPage call works in is a new one.
NewContextId(cs) == Len(cs) + 1

\* "const context = await browser.newContext(...)" and the two setDefault*Timeout calls.
NewContext(r) ==
    /\ pc[r] = "wp_newContext"
    /\ \/ /\ contexts' = IF NewContextId(contexts) > Len(contexts)
                         THEN Append(contexts, [owner |-> r, open |-> TRUE, users |-> {}])
                         ELSE contexts
          /\ ctx' = [ctx EXCEPT ![r] = NewContextId(contexts)]
          /\ pc' = [pc EXCEPT ![r] = "wp_newPage"]
          /\ UNCHANGED outcome
       \/ /\ pc' = [pc EXCEPT ![r] = "wp_done"]
          /\ outcome' = [outcome EXCEPT ![r] = [kind |-> "threw", error |-> "Error"]]
          /\ UNCHANGED <<contexts, ctx>>
    /\ UNCHANGED <<browserInstance, browserConnectionPromise, launches, awaiting, lookupVars,
                   pureVars>>

\* "const page = await context.newPage()": it stands before the try block, so a rejection
\* leaves withPage without reaching the finally.
NewPage(r) ==
    /\ pc[r] = "wp_newPage"
    /\ \/ /\ pc' = [pc EXCEPT ![r] = "fn"]
          /\ UNCHANGED outcome
       \/ /\ pc' = [pc EXCEPT ![r] = "wp_done"]
          /\ outcome' = [outcome EXCEPT ![r] = [kind |-> "threw", error |-> "Error"]]
    /\ UNCHANGED <<browserInstance, browserConnectionPromise, launches, contexts, ctx, awaiting,
                   lookupVars, pureVars>>

\* What the finally block does to the caller's context.
CloseContext(cs, c) == [cs EXCEPT ![c].open = FALSE]

\* finally { await context.close() }: the callback's outcome passes through.
Finally(r) ==
    /\ pc[r] = "wp_finally"
    /\ contexts' = CloseContext(contexts, ctx[r])
    /\ pc' = [pc EXCEPT ![r] = "wp_done"]
    /\ UNCHANGED <<browserInstance, browserConnectionPromise, launches, ctx, awaiting, outcome,
                   lookupVars, pureVars>>

\* The callback touches the page it was given: cookies, navigation and tab state live in
\* the page's context.
UsePage(cs, r) == [cs EXCEPT ![ctx[r]].users = @ \cup {r}]

(***************************************************************************)
(* Concurrent callers with an arbitrary callback (ConcSpec)                *)
(***************************************************************************)

CallWithPage(r) ==
    /\ pc[r] = "idle"
    /\ pc' = [pc EXCEPT ![r] = "wp_getBrowser"]
    /\ UNCHANGED <<browserInstance, browserConnectionPromise, launches, contexts, ctx, awaiting,
                   outcome, lookupVars, pureVars>>

FnUsesPage(r) ==
    /\ pc[r] = "fn"
    /\ r \notin contexts[ctx[r]].users
    /\ contexts' = UsePage(contexts, r)
    /\ UNCHANGED <<browserInstance, browserConnectionPromise, launches, pc, ctx, awaiting,
                   outcome, lookupVars, pureVars>>

FnReturns(r) ==
    /\ pc[r] = "fn"
    /\ pc' = [pc EXCEPT ![r] = "wp_finally"]
    /\ outcome' = [outcome EXCEPT ![r] = [kind |-> "returned", error |-> "none"]]
    /\ UNCHANGED <<browserInstance, browserConnectionPromise, launches, contexts, ctx, awaiting,
                   lookupVars, pureVars>>

FnThrows(r) ==
    /\ pc[r] = "fn"
    /\ pc' = [pc EXCEPT ![r] = "wp_finally"]
    /\ outcome' = [outcome EXCEPT ![r] = [kind |-> "threw", error |-> "Error"]]
    /\ UNCHANGED <<browserInstance, browserConnectionPromise, launches, contexts, ctx, awaiting,
                   lookupVars, pureVars>>

(***************************************************************************)
(* One searchManateePAO call, step by step (Spec)                          *)
(***************************************************************************)

NoValue == [detailUrl |-> Undefined, scraped |-> EmptyScraped]

\* A driver operation starts: its callback is handed to withPage.
BeginOp(o, first) ==
    /\ op' = o
    /\ fpc' = first
    /\ pc' = [pc EXCEPT ![Main] = "wp_getBrowser"]
    /\ outcome' = [outcome EXCEPT ![Main] = NoOutcome]
    /\ ctx' = [ctx EXCEPT ![Main] = 0]
    /\ awaiting' = [awaiting EXCEPT ![Main] = 0]
    /\ driver' = [NoDriver EXCEPT !.op = o, !.kind = "running"]
    /\ visited' = <<>>
    /\ page' = BlankPage
    /\ formAddress' = ""
    /\ fnValue' = NoValue

\* searchManateePAO up to the first driver call.
StartLookup ==
    /\ lpc = "start"
    /\ \E a \in Inputs :
          /\ input' = a
          /\ IF Trim(a) = ""
             THEN /\ result' = Failure("Address is required")
                  /\ lpc' = "done"
                  /\ UNCHANGED <<searchAddress, op, fpc, pc, outcome, ctx, awaiting, driver,
                                 visited, page, formAddress, fnValue>>
             ELSE /\ searchAddress' = normalizeAddressForPao(Trim(a)).normalizedFull
                  /\ lpc' = "scrape"
                  /\ BeginOp("scrape", "gotoSearch")
                  /\ UNCHANGED result
    /\ UNCHANGED <<pureVars, browserInstance, browserConnectionPromise, launches, contexts,
                   findResult, detailUrl, scraped, exa>>

\* The callback ends by throwing: control passes to withPage's finally.
FnThrow(error, failure, marker) ==
    /\ pc' = [pc EXCEPT ![Main] = "wp_finally"]
    /\ outcome' = [outcome EXCEPT ![Main] = [kind |-> "threw", error |-> error]]
    /\ driver' = [driver EXCEPT !.failure = failure, !.markerSeen = @ \/ marker]
    /\ fpc' = "none"
    /\ UNCHANGED fnValue

\* The callback ends by returning a value.
FnReturn(value) ==
    /\ pc' = [pc EXCEPT ![Main] = "wp_finally"]
    /\ outcome' = [outcome EXCEPT ![Main] = [kind |-> "returned", error |-> "none"]]
    /\ fnValue' = value
    /\ fpc' = "none"
    /\ UNCHANGED driver

\* The callback goes on to its next step.
FnStep(next) ==
    /\ fpc' = next
    /\ UNCHANGED <<pc, outcome, fnValue, driver>>

InFn(at) == pc[Main] = "fn" /\ fpc = at

\* Does the content read at a checkpoint carry a challenge marker?
MarkerIn(p) == detectBlocking(Content(p)).blocked

\* page.goto(PAO_SEARCH_URL, {waitUntil: "domcontentloaded"})
GotoSearchPage ==
    /\ InFn("gotoSearch")
    /\ \/ \E p \in SearchPages :
             /\ page' = p
             /\ visited' = Append(visited, PAO_SEARCH_URL)
             /\ contexts' = UsePage(contexts, Main)
             /\ FnStep("waitInput")
       \/ /\ FnThrow("TimeoutError", "searchNavTimeout", FALSE)
          /\ UNCHANGED <<page, visited, contexts>>
    /\ UNCHANGED <<pureVars, browserInstance, browserConnectionPromise, launches, ctx, awaiting,
                   lpc, op, input, searchAddress, formAddress, findResult, detailUrl, scraped,
                   exa, result>>

\* page.waitForSelector(addressInput, {state: "attached", timeout: 10000})
WaitForAddressInput ==
    /\ InFn("waitInput")
    /\ IF page.hasAddressInput THEN FnStep("checkSearch")
       ELSE FnThrow("TimeoutError", "addressInputTimeout", FALSE)
    /\ UNCHANGED <<pureVars, browserInstance, browserConnectionPromise, launches, contexts, ctx,
                   awaiting, lpc, op, input, searchAddress, page, formAddress, findResult,
                   visited, detailUrl, scraped, exa, result>>

\* detectBlocking(await page.content()) on the search form page
CheckSearchPageBlocking ==
    /\ InFn("checkSearch")
    /\ IF detectBlocking(Content(page)).blocked THEN FnThrow("BLOCKED", "blocked", TRUE)
       ELSE FnStep("fill")
    /\ UNCHANGED <<pureVars, browserInstance, browserConnectionPromise, launches, contexts, ctx,
                   awaiting, lpc, op, input, searchAddress, page, formAddress, findResult,
                   visited, detailUrl, scraped, exa, result>>

\* fillSearchForm: the street goes into #Address in USPS form; a failed fill is only logged.
FillSearchForm ==
    /\ InFn("fill")
    /\ \E filled \in BOOLEAN :
          LET street == parseAddress(searchAddress).street
          IN  formAddress' = IF filled /\ ~Falsy(street) THEN normalizeStreetForUsps(street)
                             ELSE formAddress
    /\ FnStep("findSubmit")
    /\ UNCHANGED <<pureVars, browserInstance, browserConnectionPromise, launches, contexts, ctx,
                   awaiting, lpc, op, input, searchAddress, page, findResult, visited,
                   detailUrl, scraped, exa, result>>

\* const submitBtn = await page.$(submit); if (!submitBtn) throw PlaywrightError PARSE_ERROR
FindSubmitButton ==
    /\ InFn("findSubmit")
    /\ IF page.hasSubmit THEN FnStep("submit")
       ELSE FnThrow("PARSE_ERROR", "submitMissing", FALSE)
    /\ UNCHANGED <<pureVars, browserInstance, browserConnectionPromise, launches, contexts, ctx,
                   awaiting, lpc, op, input, searchAddress, page, formAddress, findResult,
                   visited, detailUrl, scraped, exa, result>>

\* Promise.all([page.waitForNavigation(...), submitBtn.click()]) and the settle waits
SubmitAndWaitForNavigation ==
    /\ InFn("submit")
    /\ \/ \E p \in ResultPages :
             /\ page' = p
             /\ formAddress' = ""
             /\ FnStep("classify")
       \/ /\ FnThrow("TimeoutError", "submitNavTimeout", FALSE)
          /\ UNCHANGED <<page, formAddress>>
    /\ UNCHANGED <<pureVars, browserInstance, browserConnectionPromise, launches, contexts, ctx,
                   awaiting, lpc, op, input, searchAddress, findResult, visited, detailUrl,
                   scraped, exa, result>>

\* From "const resultsHtml = await page.content()" to the end of the search, and the
\* orchestrator's decision on what the search returned.
ClassifyResultsPage ==
    /\ InFn("classify")
    /\ IF ResultsPageBlocked(page)
       THEN /\ FnThrow("BLOCKED", "blocked", TRUE)
            /\ UNCHANGED findResult
       ELSE LET found == findDetailUrlOnResultsPage(page, searchAddress)
            IN  /\ findResult' = found
                /\ IF OrchestratorAccepts(found)
                   THEN /\ fpc' = IF found.alreadyOnDetailPage THEN "extractDetail"
                                  ELSE "gotoDetail"
                        /\ driver' = [driver EXCEPT !.markerSeen = @ \/ MarkerIn(page)]
                        /\ UNCHANGED <<pc, outcome, fnValue>>
                   ELSE FnReturn(NoValue)
    /\ UNCHANGED <<pureVars, browserInstance, browserConnectionPromise, launches, contexts, ctx,
                   awaiting, lpc, op, input, searchAddress, page, formAddress, visited,
                   detailUrl, scraped, exa, result>>

\* The URL the running operation opens for extraction.
DetailTarget == IF op = "scrape" THEN findResult.detailUrl ELSE detailUrl

\* page.goto(detailUrl, {waitUntil: "domcontentloaded"}) and the settle wait
GotoDetailPage ==
    /\ InFn("gotoDetail")
    /\ \/ \E p \in DetailPages(DetailTarget) :
             /\ page' = p
             /\ visited' = Append(visited, DetailTarget)
             /\ contexts' = UsePage(contexts, Main)
             /\ FnStep("extractDetail")
       \/ /\ FnThrow("TimeoutError", "detailNavTimeout", FALSE)
          /\ UNCHANGED <<page, visited, contexts>>
    /\ UNCHANGED <<pureVars, browserInstance, browserConnectionPromise, launches, ctx, awaiting,
                   lpc, op, input, searchAddress, formAddress, findResult, detailUrl, scraped,
                   exa, result>>

\* extractManateePaoPropertyFromDetailPage: blocking check, then the section extraction.
ExtractFromDetailPage ==
    /\ InFn("extractDetail")
    /\ IF detectBlocking(Content(page)).blocked THEN FnThrow("BLOCKED", "blocked", TRUE)
       ELSE FnReturn([detailUrl |-> DetailTarget,
                      scraped   |-> extractSupplementalFromMainPage(page)])
    /\ UNCHANGED <<pureVars, browserInstance, browserConnectionPromise, launches, contexts, ctx,
                   awaiting, lpc, op, input, searchAddress, page, formAddress, findResult,
                   visited, detailUrl, scraped, exa, result>>

\* What a driver operation hands to searchManateePAO once withPage has ended.
DriverOutcome(o, rethrows, value) ==
    IF o.kind = "threw" /\ rethrows
    THEN [kind |-> "threw", error |-> o.error, detailUrl |-> Undefined, scraped |-> EmptyScraped]
    ELSE IF o.kind = "threw"
    THEN [kind |-> "returned", error |-> "none", detailUrl |-> Undefined,
          scraped |-> EmptyScraped]
    ELSE [kind |-> "returned", error |-> "none", detailUrl |-> value.detailUrl,
          scraped |-> value.scraped]

\* A lookup that reports not-found straight away.
NeverTriesExaFallback(primaryDetailUrl) == FALSE

\* searchManateePAO: "if (!detailUrl)" after the orchestrator returned.
TriesExaFallback(primaryDetailUrl) == Falsy(primaryDetailUrl)

\* scrapeManateePaoPropertyByAddressPlaywright settles; searchManateePAO reads its result.
ScrapeCompletes ==
    /\ lpc = "scrape"
    /\ pc[Main] = "wp_done"
    /\ LET d == DriverOutcome(outcome[Main], ScrapeRethrows(outcome[Main].error), fnValue)
       IN  /\ driver' = [driver EXCEPT !.kind = d.kind, !.error = d.error,
                                       !.detailUrl = d.detailUrl, !.scraped = d.scraped]
           /\ IF d.kind = "threw"
              THEN /\ result' = CatchResult(d.error)
                   /\ lpc' = "done"
                   /\ UNCHANGED <<detailUrl, scraped>>
              ELSE /\ detailUrl' = d.detailUrl
                   /\ scraped' = d.scraped
                   /\ lpc' = IF TriesExaFallback(d.detailUrl) THEN "exa" ELSE "finish"
                   /\ UNCHANGED result
    /\ pc' = [pc EXCEPT ![Main] = "idle"]
    /\ page' = BlankPage
    /\ UNCHANGED <<pureVars, browserInstance, browserConnectionPromise, launches, contexts, ctx,
                   awaiting, outcome, op, fpc, input, searchAddress, formAddress, findResult,
                   visited, fnValue, exa>>

\* "if (!detailUrl)": findParcelIdViaExa(searchAddress), and on a parcel id the detail URL
\* built from it is handed to extractManateePaoPropertyPlaywright.
ExaFallback ==
    /\ lpc = "exa"
    /\ \E response \in ExaResponses :
          LET id  == findParcelIdViaExa(searchAddress, response)
              idx == IF response.throws THEN 0
                     ELSE ExaChosenIndex(response.results, searchAddress)
          IN  /\ exa' = [called |-> TRUE, parcelId |-> id,
                         source |-> IF idx = 0 THEN NoSource ELSE response.results[idx]]
              /\ IF id # Undefined
                 THEN /\ detailUrl' = "https://www.manateepao.gov/parcel/?parid=" \o id
                      /\ lpc' = "extract"
                      /\ BeginOp("extract", "gotoDetail")
                 ELSE /\ lpc' = "finish"
                      /\ UNCHANGED <<detailUrl, op, fpc, pc, outcome, ctx, awaiting, driver,
                                     visited, page, formAddress, fnValue>>
    /\ UNCHANGED <<pureVars, browserInstance, browserConnectionPromise, launches, contexts,
                   input, searchAddress, findResult, scraped, result>>

\* extractManateePaoPropertyPlaywright settles: "scraped = extractResult.scraped".
ExtractCompletes ==
    /\ lpc = "extract"
    /\ pc[Main] = "wp_done"
    /\ LET d == DriverOutcome(outcome[Main], ExtractRethrows(outcome[Main].error), fnValue)
       IN  /\ driver' = [driver EXCEPT !.kind = d.kind, !.error = d.error,
                                       !.detailUrl = d.detailUrl, !.scraped = d.scraped]
           /\ IF d.kind = "threw"
              THEN /\ result' = CatchResult(d.error)
                   /\ lpc' = "done"
                   /\ UNCHANGED scraped
              ELSE /\ scraped' = d.scraped
                   /\ lpc' = "finish"
                   /\ UNCHANGED result
    /\ pc' = [pc EXCEPT ![Main] = "idle"]
    /\ page' = BlankPage
    /\ UNCHANGED <<pureVars, browserInstance, browserConnectionPromise, launches, contexts, ctx,
                   awaiting, outcome, op, fpc, input, searchAddress, formAddress, findResult,
                   visited, fnValue, detailUrl, exa>>

\* searchManateePAO from the second "if (!detailUrl)" to its return.
Finish ==
    /\ lpc = "finish"
    /\ result' = FinalResult(Trim(input), searchAddress, detailUrl, scraped)
    /\ lpc' = "done"
    /\ UNCHANGED <<pureVars, browserVars, op, fpc, input, searchAddress, page, formAddress,
                   findResult, visited, fnValue, driver, detailUrl, scraped, exa>>

Next ==
    \/ StartLookup
    \/ GetBrowser(Main)
    \/ \E n \in 1..MaxLaunches : LaunchSucceeds(n) \/ LaunchFails(n)
    \/ BrowserResolved(Main)
    \/ BrowserRejected(Main)
    \/ NewContext(Main)
    \/ NewPage(Main)
    \/ GotoSearchPage
    \/ WaitForAddressInput
    \/ CheckSearchPageBlocking
    \/ FillSearchForm
    \/ FindSubmitButton
    \/ SubmitAndWaitForNavigation
    \/ ClassifyResultsPage
    \/ GotoDetailPage
    \/ ExtractFromDetailPage
    \/ Finally(Main)
    \/ ScrapeCompletes
    \/ ExaFallback
    \/ ExtractCompletes
    \/ Finish

Spec == Init /\ [][Next]_vars

ConcNext ==
    \/ \E r \in Lookups :
          \/ CallWithPage(r)
          \/ GetBrowser(r)
          \/ BrowserResolved(r)
          \/ BrowserRejected(r)
          \/ NewContext(r)
          \/ NewPage(r)
          \/ FnUsesPage(r)
          \/ FnReturns(r)
          \/ FnThrows(r)
          \/ Finally(r)
    \/ \E n \in 1..MaxLaunches : LaunchSucceeds(n) \/ LaunchFails(n)
    \/ BrowserDisconnected

ConcSpec == ConcInit /\ [][ConcNext]_vars


(***************************************************************************)
(* The functions and route handlers, each applied once to an input         *)
(***************************************************************************)

\* The calls made: one function of the scraper and its arguments.
FnCalls ==
    LET \* Calls of selectBestResult: SearchRow lists as parseSearchResults produces them and
        \* searched addresses.
        selectBestResultCalls ==
            LET rowPool ==
                    {[href |-> "/parcel/?parid=1123702559",
                      text |-> "1123702559 4659 56TH TER E BRADENTON", parcelId |-> "1123702559"],
                     [href |-> Undefined,
                      text |-> "5556667778 4659 GULF DR HOLMES BEACH", parcelId |-> "5556667778"],
                     [href |-> "/parcel/?parid=2223334445",
                      text |-> "2223334445 3120 OAK TERRACE", parcelId |-> "2223334445"],
                     [href |-> "/parcel/?parid=4445556667",
                      text |-> "4445556667 77 N ST PALMETTO", parcelId |-> "4445556667"]}
                addresses ==
                    {"4659 56th Terrace East", "4659 56th Ter E, Bradenton, FL 34208",
                     "3120 Pine Ave", "77 N St, Palmetto", "9 Elm St", "12 Oak Ter",
                     "Oak Terrace"}
            IN  [fn : {"selectBestResult"},
                 rows : UNION {[1..n -> rowPool] : n \in 0..MaxRows},
                 searchAddress : addresses]

        \* Calls of mergePropertyDetails.  The two passes vary the same part of the record (the
        \* scalars, the groups, one of the lists or the extras) and the values of each pass carry
        \* its name, so that the arguments differ where both are set.
        mergeCalls ==
            LET empty ==
                    [parcelId |-> Undefined, owner |-> Undefined, address |-> Undefined,
                     city |-> Undefined, state |-> Undefined, zipCode |-> Undefined,
                     ownerType |-> Undefined,
                     basicInfo |-> [present |-> FALSE, useCode |-> Undefined,
                                    subdivision |-> Undefined],
                     building |-> [present |-> FALSE, yearBuilt |-> Undefined],
                     land |-> [present |-> FALSE, landUse |-> Undefined],
                     valuations |-> <<>>, salesHistory |-> <<>>,
                     extras |-> [present |-> FALSE, paoExtraFeatures |-> Undefined,
                                 inspections |-> Undefined]]
                entries(pass, keys, field) ==
                    LET amount == IF pass = "base" THEN 100000 ELSE 200000
                    IN  UNION {[1..n -> {[k \in {field, "amount"} |->
                                            IF k = field THEN key ELSE amount] : key \in keys}] :
                               n \in 0..MaxEntries}
                records(pass, part) ==
                    CASE part = "scalars" ->
                           {[empty EXCEPT !.owner = owner, !.parcelId = parcelId, !.address = rest,
                                          !.city = rest, !.state = rest, !.zipCode = rest,
                                          !.ownerType = rest] :
                               owner \in {Undefined, "", pass \o " OWNER"},
                               parcelId \in {Undefined, pass \o " 1123702559"},
                               rest \in {Undefined, pass}}
                      [] part = "groups" ->
                           {[empty EXCEPT !.basicInfo = basicInfo, !.building = building,
                                          !.land = land] :
                               basicInfo \in
                                   {empty.basicInfo,
                                    [present |-> TRUE, useCode |-> Undefined,
                                     subdivision |-> Undefined],
                                    [present |-> TRUE, useCode |-> pass, subdivision |-> Undefined],
                                    [present |-> TRUE, useCode |-> Undefined, subdivision |-> ""]},
                               building \in {empty.building,
                                             [present |-> TRUE, yearBuilt |-> pass]},
                               land \in {empty.land, [present |-> TRUE, landUse |-> pass]}}
                      [] part = "valuations" ->
                           {[empty EXCEPT !.valuations = valuations] :
                               valuations \in entries(pass, {2023, 2024}, "year")}
                      [] part = "salesHistory" ->
                           {[empty EXCEPT !.salesHistory = salesHistory] :
                               salesHistory \in entries(pass, {"01/15/2019", "06/30/2021"}, "date")}
                      [] part = "extras" ->
                           {[empty EXCEPT !.extras = extras] :
                               extras \in {empty.extras,
                                           [present |-> TRUE, paoExtraFeatures |-> pass,
                                            inspections |-> Undefined],
                                           [present |-> TRUE, paoExtraFeatures |-> Undefined,
                                            inspections |-> pass]}}
            IN  UNION {[fn : {"mergePropertyDetails"}, base : records("base", part),
                        supplemental : records("supplemental", part)] :
                       part \in {"scalars", "groups", "valuations", "salesHistory", "extras"}}

        \* Calls of normalizeAddressForPao.
        normalizeCalls ==
            [fn : {"normalizeAddressForPao"},
             input : Inputs \cup {"4659 56th Terrace East", "12 North Oak Street, Unit 4",
                                  "12 Oak Ter, Bradenton, Florida 34208",
                                  "77 N St, Palmetto, fl, 34221", ", North, FL",
                                  "3120  Pine   Avenue ,Bradenton,FL 34205-1234"}]

        \* Calls of the section parsers: each of the table parsers on the empty string, on the
        \* table of every section and on a values table that lists a year twice, the owner
        \* parser on a block without its labels.
        sectionParserCalls ==
            [fn : {"sectionParser"},
             parser : {"parseValuationsTable", "parseSalesTable", "parseBuildingsFromHtml",
                       "parseExtraFeaturesFromHtml", "parseInspectionsFromHtml"},
             html : {<<>>, <<[SectionTables.values EXCEPT !.rows = @ \o <<@[1]>>]>>}
                        \cup {<<SectionTables[s]>> : s \in DOMAIN SectionTables}]
            \cup [fn : {"sectionParser"}, parser : {"parseOwnerInfoFromMainPageHtml"},
                  ownerHtml : {[NoOwnerContent EXCEPT !.present = TRUE]}]

        \* Calls of extractSupplementalFromMainPage: parcel pages on which each tab loads its
        \* table, has no tab, never shows its table, or makes a Playwright call throw, and on which
        \* the owner block is found or not.
        extractCalls ==
            LET section(s, how) ==
                    CASE how = "loads" -> LoadingTabs[s]
                      [] how = "no tab" -> BlankPage.tabs[s]
                      [] how = "no table" -> [BlankPage.tabs[s] EXCEPT !.tab = "enabled"]
                      [] how = "throws" ->
                             [BlankPage.tabs[s] EXCEPT !.tab = "enabled", !.throws = TRUE]
            IN  [fn : {"extractSupplementalFromMainPage"},
                 page : {[BlankPage EXCEPT
                             !.url = "https://www.manateepao.gov/parcel/?parid=1123702559",
                             !.ownerHtml = owner,
                             !.tabs = [s \in DOMAIN SectionTables |-> section(s, how[s])]] :
                            owner \in {NoOwnerContent,
                                       [present |-> TRUE, ownership |-> "DOE JANE",
                                        situs |-> "3120 OAK TER, BRADENTON, FL 34205"]},
                            how \in [DOMAIN SectionTables ->
                                        {"loads", "no tab", "no table", "throws"}]}]

        \* Calls of clickTabAndExtractTable: the tab is missing, enabled or disabled; the
        \* table selector finds nothing, a table without rows or the loaded table, before
        \* the click and when the driver reads after it; a Playwright call throws or not.
        clickTabCalls ==
            LET found == {<<>>, <<[SectionTables.values EXCEPT !.rows = <<>>]>>,
                          <<SectionTables.values>>}
            IN  [fn : {"clickTabAndExtractTable"},
                 section : [tab : {"missing", "enabled", "disabled"}, initial : found,
                            afterClick : found, throws : BOOLEAN]]

        \* Requests to /api/research.  getSession resolves to null or to the session of a
        \* user, or rejects; the body is invalid JSON or carries an address (none, a number,
        \* "" or another string); the agent returns with or without a property, or throws; the
        \* insert succeeds or throws.
        postCalls ==
            [fn : {"POST"}, getSession : {"null", "throws", "u1", "u2"},
             json : {[type |-> "invalid JSON", address |-> Undefined],
                     [type |-> "undefined", address |-> Undefined],
                     [type |-> "number", address |-> Undefined],
                     [type |-> "string", address |-> ""],
                     [type |-> "string", address |-> "12 Oak Ter"]},
             agent : {"property", "no property", "throws"},
             insert : {"ok", "throws"}]

        \* The id parameter is absent (null) or a number; the query succeeds or throws.
        getCalls ==
            [fn : {"GET"}, getSession : {"null", "throws", "u1", "u2"},
             id : {Undefined, "1", "2", "7"},
             query : {"ok", "throws"}]
    IN  selectBestResultCalls \cup mergeCalls \cup normalizeCalls \cup sectionParserCalls
            \cup extractCalls \cup clickTabCalls \cup postCalls \cup getCalls

FnInit ==
    /\ InitBrowser
    /\ InitLookup("off")
    /\ call = "none"
    /\ args \in FnCalls
    /\ ret = <<>>
    /\ argsAfter = <<>>
    /\ propertySearches =
           <<[id |-> 1, userId |-> "u1", address |-> "3120 Pine Ave", found |-> TRUE],
             [id |-> 2, userId |-> "u2", address |-> "77 N St, Palmetto", found |-> FALSE]>>
    /\ researchRuns = 0

\* The function named by `fn' is applied to the arguments and returns `value'; it writes to
\* none of the objects it was given.
Apply(fn, value) ==
    /\ call = "none"
    /\ args.fn = fn
    /\ call' = fn
    /\ ret' = value
    /\ argsAfter' = args
    /\ UNCHANGED <<args, propertySearches, researchRuns, browserVars, lookupVars>>

ApplySelectBestResult ==
    Apply("selectBestResult", selectBestResult(args.rows, args.searchAddress))

\* mergePropertyDetails starts from the shallow copy `{ ...base }': a group that base has
\* (basicInfo, building, land, extras) is the very object the merge writes to, so base shows
\* the merged group afterwards; the lists are rebuilt and supplemental is only read.
ApplyMergePropertyDetails ==
    LET merged == mergePropertyDetails(args.base, args.supplemental)
        shared(group) == IF args.base[group].present THEN merged[group] ELSE args.base[group]
    IN  /\ call = "none"
        /\ args.fn = "mergePropertyDetails"
        /\ call' = "mergePropertyDetails"
        /\ ret' = merged
        /\ argsAfter' = [args EXCEPT !.base.basicInfo = shared("basicInfo"),
                                     !.base.building = shared("building"),
                                     !.base.land = shared("land"),
                                     !.base.extras = shared("extras")]
        /\ UNCHANGED <<args, propertySearches, researchRuns, browserVars, lookupVars>>

ApplyNormalizeAddressForPao ==
    Apply("normalizeAddressForPao", normalizeAddressForPao(args.input))

\* None of the parsers has a throwing path: each returns a value for every HTML string.
ApplySectionParser ==
    Apply("sectionParser",
          CASE args.parser = "parseOwnerInfoFromMainPageHtml" ->
                   parseOwnerInfoFromMainPageHtml(args.ownerHtml)
            [] args.parser = "parseValuationsTable" -> parseValuationsTable(args.html)
            [] args.parser = "parseSalesTable" -> parseSalesTable(args.html)
            [] args.parser = "parseBuildingsFromHtml" -> parseBuildingsFromHtml(args.html)
            [] args.parser = "parseExtraFeaturesFromHtml" ->
                   parseExtraFeaturesFromHtml(args.html)
            [] args.parser = "parseInspectionsFromHtml" ->
                   parseInspectionsFromHtml(args.html))

ApplyClickTabAndExtractTable ==
    Apply("clickTabAndExtractTable", clickTabAndExtractTable(args.section))

ApplyExtractSupplementalFromMainPage ==
    Apply("extractSupplementalFromMainPage", extractSupplementalFromMainPage(args.page))

(***************************************************************************)
(* /api/research                                                           *)
(***************************************************************************)

\* A handler that lets every request through.
AuthenticatedAlways(session) == TRUE

\* "if (!session?.user)" fails: the request carries the session of a user.
Authenticated(session) == session # "null"

\* POST /api/research: authentication, the address of the body, the research agent, the
\* insert of the search row, the response; every throw ends in the 500 response.
PostResearch ==
    LET error(status, message) == [status |-> status, body |-> [error |-> message]]
        address == args.json.address
        invalid == args.json.type = "invalid JSON"
        \* !address || typeof address !== "string"
        badBody == args.json.type # "string" \/ Falsy(address)
        runs == /\ args.getSession # "throws"
                /\ Authenticated(args.getSession)
                /\ ~invalid
                /\ ~badBody
        inserts == runs /\ args.agent # "throws" /\ args.insert = "ok"
        savedSearch == [id |-> Len(propertySearches) + 1, userId |-> args.getSession,
                        address |-> address, found |-> args.agent = "property"]
    IN  /\ call = "none"
        /\ args.fn = "POST"
        /\ call' = "POST"
        /\ researchRuns' = IF runs THEN researchRuns + 1 ELSE researchRuns
        /\ propertySearches' = IF inserts THEN Append(propertySearches, savedSearch)
                               ELSE propertySearches
        /\ ret' = IF args.getSession = "throws" THEN error(500, "Internal server error")
                  ELSE IF ~Authenticated(args.getSession) THEN error(401, "Unauthorized")
                  ELSE IF invalid THEN error(500, "Internal server error")
                  ELSE IF badBody THEN error(400, "Address is required")
                  ELSE IF ~inserts THEN error(500, "Internal server error")
                  ELSE [status |-> 200,
                        body |-> [success |-> TRUE, searchId |-> savedSearch.id,
                                  result |-> [found |-> savedSearch.found]]]
        /\ UNCHANGED <<args, argsAfter, browserVars, lookupVars>>

\* GET /api/research: authentication, then the search with the given id or the searches of
\* the user, newest first.
GetResearch ==
    LET error(status, message) == [status |-> status, body |-> [error |-> message]]
        own == SelectSeq(propertySearches, LAMBDA row : row.userId = args.getSession)
        search == SelectSeq(own, LAMBDA row : <<row.id>> = ParseInt(args.id))
    IN  /\ call = "none"
        /\ args.fn = "GET"
        /\ call' = "GET"
        /\ ret' = IF args.getSession = "throws" THEN error(500, "Internal server error")
                  ELSE IF ~Authenticated(args.getSession) THEN error(401, "Unauthorized")
                  ELSE IF args.query = "throws" THEN error(500, "Internal server error")
                  ELSE IF args.id # Undefined
                  THEN IF Len(search) = 0 THEN error(404, "Search not found")
                       ELSE [status |-> 200, body |-> [search |-> search[1]]]
                  ELSE [status |-> 200,
                        body |-> [searches |-> [i \in 1..Len(own) |->
                                                   own[Len(own) + 1 - i]]]]
        /\ UNCHANGED <<args, argsAfter, propertySearches, researchRuns, browserVars, lookupVars>>

FnNext ==
    \/ ApplySelectBestResult
    \/ ApplySectionParser
    \/ ApplyExtractSupplementalFromMainPage
    \/ ApplyClickTabAndExtractTable
    \/ ApplyNormalizeAddressForPao
    \/ ApplyMergePropertyDetails
    \/ PostResearch
    \/ GetResearch

FnSpec == FnInit /\ [][FnNext]_vars
(***************************************************************************)
(* Properties                                                              *)
(***************************************************************************)

\* text carries the searched street number and a street-name word of the searched address.
SiteConfirms(text, address) ==
    LET street == ToLowerCase(parseAddress(address).street)
    IN  /\ ~Falsy(text)
        /\ StreetNumberOf(street) # ""
        /\ Includes(ToLowerCase(text), StreetNumberOf(street))
        /\ HasStreetNameWord(ToLowerCase(text), StreetNameOf(street))

\* C1: a lookup returns success only if the site confirmed the searched address, in the row
\* the matcher selected or in the address of the extracted page.
C1_SuccessOnlyIfAddressConfirmed ==
    (lpc = "done" /\ result.success)
        => \/ SiteConfirms(findResult.matchedText, searchAddress)
           \/ SiteConfirms(scraped.address, searchAddress)

UnconfirmedMatch == findResult.ran /\ ~Falsy(findResult.detailUrl) /\ ~findResult.addressFound

\* C2: after an unconfirmed match (first row's link, addressFound = false) the search
\* operation never opens that row's detail page and returns detailUrl = null with an empty
\* record.
C2_UnconfirmedMatchIsNotFound ==
    (op = "scrape" /\ UnconfirmedMatch)
        => /\ \A i \in 1..Len(visited) : visited[i] # findResult.detailUrl
           /\ fpc \notin {"gotoDetail", "extractDetail"}
           /\ outcome[Main].kind = "returned" => fnValue = NoValue
           /\ driver.kind # "running"
                 => driver.kind = "returned" /\ driver.detailUrl = Undefined
                      /\ driver.scraped = EmptyScraped

C2_Witness ==
    /\ op = "scrape"
    /\ UnconfirmedMatch
    /\ driver.kind = "returned"
    /\ lpc = "exa"

\* C3: once the content read at a checkpoint carried a challenge marker, the driver
\* operation ends by raising BLOCKED, and the lookup returns no property.
C3_MarkerRaisesBlocked ==
    (driver.markerSeen /\ driver.kind # "running")
        => /\ driver.kind = "threw"
           /\ driver.error = "BLOCKED"
           /\ lpc = "done" => ~result.success

\* C4: a missing submit button or a timed-out post-submit navigation reaches the caller of
\* the driver's lookup operation as an error, never as detailUrl = null with an empty record.
C4_SearchFailureIsRaised ==
    (driver.op = "scrape" /\ driver.kind # "running"
        /\ driver.failure \in {"submitMissing", "submitNavTimeout"})
        => driver.kind = "threw"

\* C5: when a withPage call has ended, however it ended, the context created for it is
\* closed.
C5_ContextClosedWhenCallerDone ==
    \A r \in Lookups : (pc[r] = "wp_done" /\ ctx[r] # 0) => ~contexts[ctx[r]].open

\* C6: every caller works in a context created for it alone: no two callers hold the same
\* context and a context's state is touched by its owner only.
C6_ContextsAreIsolated ==
    /\ \A r \in Lookups : ctx[r] # 0 => contexts[ctx[r]].owner = r
    /\ \A r1, r2 \in Lookups : (r1 # r2 /\ ctx[r1] # 0 /\ ctx[r2] # 0) => ctx[r1] # ctx[r2]
    /\ \A c \in 1..Len(contexts) : contexts[c].users \subseteq {contexts[c].owner}

C6_Witness ==
    \E r1, r2 \in Lookups :
        /\ r1 # r2
        /\ pc[r1] = "fn" /\ pc[r2] = "fn"
        /\ r1 \in contexts[ctx[r1]].users
        /\ r2 \in contexts[ctx[r2]].users
        /\ browserInstance # 0
        /\ awaiting[r1] = browserInstance /\ awaiting[r2] = browserInstance

NavigationTimeouts == {"searchNavTimeout", "submitNavTimeout", "detailNavTimeout"}

\* C7: a lookup in which a page load exceeded the navigation timeout ends with the timeout
\* failure.
C7_NavigationTimeoutEndsLookup ==
    (lpc = "done" /\ driver.failure \in NavigationTimeouts)
        => ~result.success /\ result = CatchResult("TIMEOUT")

\* The page shows no result rows and an empty-state phrase.
EmptyStatePage(p) ==
    /\ directParcelMatch(p.url) = Undefined
    /\ Len(parseSearchResults(p)) = 0
    /\ detectNoResults(Content(p))

\* C8: zero rows and an empty-state phrase on the results page make the search operation
\* return detailUrl = null, and the lookup does not go on without the Exa fallback having
\* been called.
C8_EmptyStateReachesFallback ==
    /\ (op = "scrape" /\ fpc = "none" /\ pc[Main] \in {"wp_finally", "wp_done"}
          /\ EmptyStatePage(page) /\ ~MarkerIn(page))
          => /\ findResult.noResultsDetected
             /\ outcome[Main].kind = "returned"
             /\ fnValue = NoValue
    /\ findResult.noResultsDetected
          => /\ (driver.op = "scrape" /\ driver.kind # "running")
                   => driver.kind = "returned" /\ driver.detailUrl = Undefined
             /\ lpc \in {"extract", "finish", "done"} => exa.called

C8_Witness ==
    /\ findResult.noResultsDetected
    /\ findResult.rowsFound = 0
    /\ lpc = "done"
    /\ exa.called
    /\ ~result.success

\* C9: the Exa fallback is called only in a lookup whose browser search ran and found no
\* confirmed match.
C9_FallbackOnlyAfterUnconfirmedSearch ==
    exa.called => findResult.ran /\ ~OrchestratorAccepts(findResult)

\* C10: a parcel id comes back from the Exa fallback only out of a result whose text
\* mentions the searched address the way the result matcher requires of a row.
C10_FallbackParcelMentionsAddress ==
    exa.parcelId # Undefined
        => \/ SiteConfirms(exa.source.text, searchAddress)
           \/ SiteConfirms(exa.source.title, searchAddress)

\* C11: for the input "4659 56th Ter E, Bradenton, FL 34208" answered by a direct redirect
\* to a parcel URL, the emitted record carries the parcel id of that URL and the redirect
\* URL as detailUrl.
C11_DirectRedirectRecord ==
    (lpc = "done" /\ result.success /\ findResult.alreadyOnDetailPage
        /\ input = "4659 56th Ter E, Bradenton, FL 34208")
        => /\ ~Falsy(result.property.parcelId)
           /\ result.property.parcelId = directParcelMatch(findResult.detailUrl)
           /\ result.property.detailUrl = findResult.detailUrl

\* The words of the searched street after its first one, in lower case.
SearchedNameWords(address) ==
    LET tokens == SplitWhitespace(ToLowerCase(parseAddress(address).street))
    IN  {tokens[i] : i \in 2..Len(tokens)}

\* The row's text contains the searched street number and a street-name word of the address
\* that has more than `longerThan' characters.
RowSatisfies(row, address, longerThan) ==
    LET tokens == SplitWhitespace(ToLowerCase(parseAddress(address).street))
    IN  /\ Includes(ToLowerCase(row.text), tokens[1])
        /\ \E w \in SearchedNameWords(address) :
                Len(w) > longerThan /\ Includes(ToLowerCase(row.text), w)

\* The matcher's answer is the first row of `sat', confirmed, and is unconfirmed exactly
\* when `sat' is empty.
MatcherAnswers(rows, sat) ==
    /\ ret.addressFound <=> sat # {}
    /\ sat # {}
         => /\ ret.matchedText = rows[MinPos(sat)].text
            /\ ret.href = RowUrl(rows[MinPos(sat)])
    /\ (sat = {} /\ Len(rows) > 0) => ret.href = RowUrl(rows[1])
    /\ Len(rows) = 0 => ret.href = Undefined

\* C12 as stated: the matcher returns as confirmed the first row whose text contains the
\* searched street number and at least one street-name word of the searched address, and
\* returns unconfirmed exactly when no row satisfies both conditions.
C12_MatcherSelectsFirstMatchingRow ==
    call = "selectBestResult"
        => MatcherAnswers(args.rows,
               {i \in 1..Len(args.rows) : RowSatisfies(args.rows[i], args.searchAddress, 0)})

\* C12, amended: the matcher returns as confirmed the first row whose text contains the
\* searched street number and at least one street-name word of more than two characters of
\* the searched address, with that row's link; it returns the first row's link unconfirmed
\* exactly when no row satisfies both conditions.
C12_MatcherSelectsFirstSignificantRow ==
    call = "selectBestResult"
        => MatcherAnswers(args.rows,
               {i \in 1..Len(args.rows) : RowSatisfies(args.rows[i], args.searchAddress, 2)})

C12_Witness ==
    /\ call = "selectBestResult"
    /\ args.searchAddress = "4659 56th Terrace East"
    /\ Len(args.rows) = 2
    /\ ~RowSatisfies(args.rows[1], args.searchAddress, 2)
    /\ RowSatisfies(args.rows[2], args.searchAddress, 2)
    /\ ret.addressFound
    /\ ret.href = "/parcel/?parid=1123702559"

\* C13: merging never removes or changes a scalar field that is set in the base, at the top
\* level (a filled field counts as set when it is a non-empty string) or inside the
\* basicInfo, building and land groups (set: not undefined); a merged scalar differs from
\* the base one only where the base one is unset, and then it is the supplemental value.
C13_MergeKeepsBaseScalars ==
    call = "mergePropertyDetails"
        => /\ ret.parcelId = args.base.parcelId
           /\ \A field \in {"owner", "address", "city", "state", "zipCode", "ownerType"} :
                /\ ~Falsy(args.base[field]) => ret[field] = args.base[field]
                /\ ret[field] # args.base[field]
                     => Falsy(args.base[field]) /\ ret[field] = args.supplemental[field]
           /\ \A group \in {"basicInfo", "building", "land"} :
                \A key \in DOMAIN ret[group] \ {"present"} :
                /\ args.base[group][key] # Undefined
                     => ret[group][key] = args.base[group][key]
                /\ ret[group][key] # args.base[group][key]
                     => ret[group][key] = args.supplemental[group][key]

C13_Witness ==
    /\ call = "mergePropertyDetails"
    /\ args.base.owner = "base OWNER"
    /\ args.supplemental.owner = "supplemental OWNER"
    /\ args.base.city = Undefined
    /\ ret.owner = "base OWNER"
    /\ ret.city = "supplemental"

\* The positions of `list' hold pairwise different values of `key'.
DistinctKeys(list, key) ==
    \A i, j \in 1..Len(list) : list[i][key] = list[j][key] => i = j

\* Every key present in both lists is carried in `merged' by the base entry only.
BaseEntryKept(merged, baseList, supplementalList, key) ==
    \A i \in 1..Len(baseList), j \in 1..Len(supplementalList) :
        baseList[i][key] = supplementalList[j][key]
            => \A k \in 1..Len(merged) :
                   merged[k][key] = baseList[i][key] => merged[k].amount = baseList[i].amount

\* C14: after merging two passes whose valuation lists share a year or whose sale lists
\* share a date, the merged valuation list has no two entries with the same year, the merged
\* sales list has no two entries with the same date, and for every shared key the entry kept
\* is the base one.
C14_MergedListsHaveDistinctKeys ==
    LET base == args.base
        supplemental == args.supplemental
        shares(field, key) ==
            \E i \in 1..Len(base[field]), j \in 1..Len(supplemental[field]) :
                base[field][i][key] = supplemental[field][j][key]
    IN  (call = "mergePropertyDetails"
            /\ (shares("valuations", "year") \/ shares("salesHistory", "date")))
            => /\ DistinctKeys(ret.valuations, "year")
               /\ DistinctKeys(ret.salesHistory, "date")
               /\ BaseEntryKept(ret.valuations, base.valuations, supplemental.valuations,
                                "year")
               /\ BaseEntryKept(ret.salesHistory, base.salesHistory,
                                supplemental.salesHistory, "date")

\* C15: normalizing the normalized full address returns it unchanged:
\* normalizeAddressForPao(normalizeAddressForPao(x).normalizedFull).normalizedFull
\* = normalizeAddressForPao(x).normalizedFull.
C15_NormalizationIsIdempotent ==
    call = "normalizeAddressForPao"
        => normalizeAddressForPao(ret.normalizedFull).normalizedFull = ret.normalizedFull

\* The section whose table each table parser is written for.
ParserSection ==
    [parseValuationsTable |-> "values", parseSalesTable |-> "sales",
     parseBuildingsFromHtml |-> "buildings", parseExtraFeaturesFromHtml |-> "features",
     parseInspectionsFromHtml |-> "inspections"]

\* C16: every section parser (owner/basic info, valuations, sales, building, extra features,
\* inspections), given an empty string or HTML unrelated to its section, returns an empty
\* result; no parser throws.
C16_ParsersReturnEmptyOnUnrelatedHtml ==
    call = "sectionParser"
        => CASE args.parser = "parseOwnerInfoFromMainPageHtml" -> ret = EmptyScraped
             [] OTHER ->
                    LET own == SectionTables[ParserSection[args.parser]]
                        unrelated == \A i \in 1..Len(args.html) :
                                         args.html[i].header # own.header
                    IN  unrelated => ret = IF args.parser = "parseBuildingsFromHtml"
                                           THEN EmptyScraped.building ELSE <<>>

\* C17: during detail-page extraction a section that fails to be revealed (no tab, no
\* table after the click, a Playwright call that throws) is omitted from the record and
\* never keeps the other sections out of it: the record holds the parse of every tab that
\* loads, and the owner data when the owner block is found, whatever happens to the rest.
C17_SectionsFailIndependently ==
    LET tabs == args.page.tabs
        holds(s, field, parse, omitted) ==
            ret[field] = IF tabs[s] = LoadingTabs[s] THEN parse ELSE omitted
    IN  call = "extractSupplementalFromMainPage"
            => /\ holds("values", "valuations",
                        parseValuationsTable(<<SectionTables.values>>), <<>>)
               /\ holds("sales", "salesHistory", parseSalesTable(<<SectionTables.sales>>), <<>>)
               /\ holds("buildings", "building",
                        parseBuildingsFromHtml(<<SectionTables.buildings>>), EmptyScraped.building)
               /\ holds("features", "paoExtraFeatures",
                        parseExtraFeaturesFromHtml(<<SectionTables.features>>), <<>>)
               /\ holds("inspections", "inspections",
                        parseInspectionsFromHtml(<<SectionTables.inspections>>), <<>>)
               /\ ret.owner = IF args.page.ownerHtml.present THEN "DOE JANE" ELSE Undefined

C17_Witness ==
    /\ call = "extractSupplementalFromMainPage"
    /\ args.page.tabs.sales.throws
    /\ args.page.tabs.values = LoadingTabs.values
    /\ args.page.tabs.buildings.tab = "missing"
    /\ args.page.ownerHtml.present
    /\ ret.salesHistory = <<>>
    /\ Len(ret.valuations) = 2
    /\ ret.building = EmptyScraped.building
    /\ ret.owner = "DOE JANE"

\* C18: when the browser engine cannot be launched or connected, the request ends with the
\* BROWSER_LAUNCH_FAILED failure, and no launch or connect attempt follows the failed one
\* within the request.
C18_LaunchFailureEndsRequest ==
    (\E n \in 1..Len(launches) : launches[n] = "failed")
        => /\ Len(launches) = 1
           /\ lpc = "done" => result = CatchResult("BROWSER_LAUNCH_FAILED")

\* C19: whenever the emitted record has a non-empty valuations list, its marketValue,
\* assessedValue and taxAmount are the values (just total, assessed total, ad valorem plus
\* non ad valorem taxes) of the valuation entry with the greatest year.
C19_SummaryValuesFromLatestValuation ==
    (lpc = "done" /\ result.success /\ Len(result.property.valuations) > 0)
        => LET valuations == result.property.valuations
               latest == valuations[CHOOSE i \in 1..Len(valuations) :
                            \A j \in 1..Len(valuations) :
                                OrZero(valuations[j].year) <= OrZero(valuations[i].year)]
           IN  /\ result.property.marketValue = latest.justTotal
               /\ result.property.assessedValue = latest.assessedTotal
               /\ result.property.taxAmount
                    = <<OrZero(latest.adValoremTaxes) + OrZero(latest.nonAdValoremTaxes)>>

\* C20: whenever the emitted record's sales history contains a sale with a nonzero price,
\* its lastSalePrice and lastSaleDate are those of the latest-dated sale with a nonzero
\* price.
C20_LastSaleFromLatestPricedSale ==
    LET priced == IF lpc = "done" /\ result.success
                  THEN SelectSeq(result.property.salesHistory, LAMBDA s : OrZero(s.price) # 0)
                  ELSE <<>>
    IN  Len(priced) > 0
            => \E i \in 1..Len(priced) :
                   /\ \A j \in 1..Len(priced) :
                          OrZero(DateTime(priced[j].date)) <= OrZero(DateTime(priced[i].date))
                   /\ result.property.lastSalePrice = priced[i].price
                   /\ result.property.lastSaleDate = priced[i].date

\* C21: a field that was not observed on the site is absent from the emitted record: no
\* property type when the extraction read none, no address when the page showed no situs
\* address, no market value when none was read.
C21_UnobservedFieldsAreAbsent ==
    (lpc = "done" /\ result.success)
        => /\ Falsy(scraped.propertyType) => result.property.propertyType = Undefined
           /\ Falsy(scraped.address) => result.property.address = Undefined
           /\ scraped.marketValue = <<>> => result.property.marketValue = <<>>

\* C22: a request to POST or GET /api/research without an authenticated session is answered
\* 401; no research runs, no search row is written and no search data is returned.
C22_ResearchRequiresSession ==
    [][(args.fn \in {"POST", "GET"} /\ args.getSession = "null")
           => /\ ret' = [status |-> 401, body |-> [error |-> "Unauthorized"]]
              /\ UNCHANGED <<propertySearches, researchRuns>>]_vars

C22_Witness ==
    /\ call = "POST"
    /\ args.getSession = "null"
    /\ args.json.address = "12 Oak Ter"
    /\ args.agent = "property"
    /\ ret.status = 401
    /\ researchRuns = 0
    /\ Len(propertySearches) = 2

\* C23: for a data section the driver does not click a tab that is already active/disabled
\* and reads the table directly; otherwise it clicks the tab and the HTML it returns is
\* that of the populated table (one with rows), or the section is reported unavailable.
C23_SectionReadAfterTablePopulated ==
    call = "clickTabAndExtractTable"
        => LET section == args.section
               rows(tables) == Len(Flatten([i \in 1..Len(tables) |-> tables[i].rows]))
           IN  /\ section.tab = "disabled" => ~ret.clicked
               /\ (section.tab = "disabled" /\ ret.present) => ret.tables = section.initial
               /\ ret.clicked => (~ret.present \/ rows(ret.tables) > 0)
               /\ ~ret.present => ret.tables = <<>>

\* C24: the search protocol runs in order: the form is filled only on a search page whose
\* address input is attached and which passed the blocking check, it is submitted only with
\* the normalized street in the address field, and the page that is classified is the one
\* the submit navigated to.
C24_SearchProtocolInOrder ==
    /\ InFn("fill") => (page.hasAddressInput /\ ~MarkerIn(page))
    /\ InFn("submit") =>
           /\ ~Falsy(parseAddress(searchAddress).street)
           /\ formAddress = normalizeStreetForUsps(parseAddress(searchAddress).street)
    /\ InFn("classify") => page.url # PAO_SEARCH_URL

\* C25: the valuation parser emits a record only for rows whose first cell is a plausible
\* 4-digit year: every emitted valuation has a year, and it lies between 2000 and 2100.
C25_ValuationsHaveValidYear ==
    (call = "sectionParser" /\ args.parser = "parseValuationsTable")
        => \A i \in 1..Len(ret) :
               /\ ret[i].year # <<>>
               /\ ret[i].year[1] \in 2000..2100

\* C26: the valuation parser returns one record per year, in strictly descending order of
\* the year (compared where both records carry a year).
C26_ValuationsOnePerYearDescending ==
    (call = "sectionParser" /\ args.parser = "parseValuationsTable")
        => \A i, j \in 1..Len(ret) :
               (i < j /\ ret[i].year # <<>> /\ ret[j].year # <<>>)
                   => ret[i].year[1] > ret[j].year[1]

\* C27: getBrowser callers that find no connected browser share one launch: at most one
\* launch/connect is in progress at any time, and a caller that calls getBrowser while one
\* is in progress starts no other and awaits that one.
C27_ConcurrentCallersShareOneLaunch ==
    [][/\ Cardinality({n \in 1..Len(launches') : launches'[n] = "pending"}) <= 1
       /\ \A r \in Lookups :
              (/\ pc[r] = "wp_getBrowser"
               /\ pc'[r] # "wp_getBrowser"
               /\ \E n \in 1..Len(launches) : launches[n] = "pending")
                  => /\ launches' = launches
                     /\ launches[awaiting'[r]] = "pending"]_vars

C27_Witness ==
    \E r1, r2 \in Lookups :
        /\ r1 # r2
        /\ pc[r1] = "wp_awaitBrowser" /\ pc[r2] = "wp_awaitBrowser"
        /\ awaiting[r1] = awaiting[r2]
        /\ launches[awaiting[r1]] = "pending"
        /\ Len(launches) = 1

\* C28: searchManateePAO never throws: an error thrown to it by a driver operation ends the
\* lookup with the failure its catch block builds, and what a lookup returns has source
\* "manatee_pao" and is either a success with a property and no error or a failure with an
\* error message and no property.
C28_LookupAlwaysReturnsResult ==
    /\ driver.kind = "threw" => (lpc = "done" /\ result = CatchResult(driver.error))
    /\ lpc = "done" =>
           /\ result.source = "manatee_pao"
           /\ IF result.success
              THEN /\ result.error = Undefined
                   /\ result.property =
                          normalizePropertyDetails(Trim(input), scraped, detailUrl)
              ELSE /\ result.error # Undefined
                   /\ result.property = Undefined

\* A lookup whose search was answered by a challenge page: the driver threw BLOCKED and the
\* lookup returned the failure.
C28_Witness ==
    /\ lpc = "done"
    /\ driver.kind = "threw"
    /\ driver.error = "BLOCKED"
    /\ ~result.success
    /\ result.error # Undefined

\* C29: the matcher confirms a row only if the searched address has a street number and
\* the address of the row (the text after its parcel id) starts with that number.
C29_ConfirmedRowHasSearchedNumber ==
    (call = "selectBestResult" /\ ret.addressFound)
        => LET street == parseAddress(args.searchAddress).street
               number == StreetNumberOf(street)
               confirmed == {i \in 1..Len(args.rows) :
                                Substring100(args.rows[i].text) = ret.matchedText}
           IN  /\ number # "" /\ IsAllDigits(number)
               /\ \A i \in confirmed : SplitWhitespace(args.rows[i].text)[2] = number

\* C30: merging does not modify its inputs: when mergePropertyDetails has returned, the base
\* and the supplemental record, their groups and lists included, are as they were passed.
C30_MergeLeavesInputsUnchanged ==
    call = "mergePropertyDetails"
        => /\ argsAfter.base = args.base
           /\ argsAfter.supplemental = args.supplemental
====
